---- MODULE Spec2Model ----
(***************************************************************************)
(* Merge-PDF: a model of the file list manager (core/file_manager.py),     *)
(* the row-drag manager (ui/drag_drop.py), the merge engine                *)
(* (core/pdf_handler.py), the image optimizer entry point                  *)
(* (core/pdf_image_optimizer.py), the background workers of the main       *)
(* window (main_window.py, ui/preview.py) and the start-up sequence        *)
(* (main.py).  Each component has its own specification; the variables of  *)
(* the other components stay at their initial values.                      *)
(***************************************************************************)
EXTENDS Integers, Sequences, FiniteSets, TLC

VARIABLES
    pdf_files,        \* PDFFileManager._pdf_files: sequence of PDFInfo records
    selected_index,   \* PDFFileManager._selected_index: None or <<i>>, i 0-based
    sort_order,       \* PDFFileManager._sort_order: "asc" / "desc"
    fm_call           \* observation of the last manager call: arguments, state
                      \* before it, return value, notifications it fired

fmVars == <<pdf_files, selected_index, sort_order, fm_call>>

VARIABLES
    drag_data,        \* DragDropManager.drag_data: item (None or <<i>>), y, started
    drop_helpers,     \* whether set_drop_helpers has installed the three helpers
    drop_indicator,   \* whether the insertion line is shown (show/hide helper)
    gesture           \* observation of the current row-drag gesture

dragVars == <<drag_data, drop_helpers, drop_indicator, gesture>>

VARIABLES
    m_call,           \* the running PDFMerger call: op, pdf_files, standardize_to_a4
    m_pc,             \* where the call is: idle, file, save, compress, verify, done, raised
    m_i,              \* index of the next input file (the loop variable i)
    m_merger,         \* pages appended so far to the PdfMerger / PdfWriter
    m_output,         \* the file at output_path
    m_progress,       \* values handed to the progress callback, in order
    m_temp,           \* temporary files: how many were created, how many still exist
    m_faults,         \* environment failures met by this call
    m_passes,         \* compression passes run on the output file, in order
    m_result          \* the returned record, or the raised exception

mergeVars == <<m_call, m_pc, m_i, m_merger, m_output, m_progress, m_temp, m_faults, m_passes,
              m_result>>

VARIABLES
    o_in,             \* the running optimize_pdf_images call and its environment
    o_pc,             \* where the call is: idle, open, pages, save, returned
    o_page,           \* num_pagina, the next page to process
    o_stats,          \* images_processed, pages_processed, jpeg/png/resized_images
    o_disk,           \* what output_path holds and how many temporary files exist
    o_result          \* the returned record, or the raised exception

optVars == <<o_in, o_pc, o_page, o_stats, o_disk, o_result>>

VARIABLES
    t_workers,        \* the merge worker threads: where each is in _merge_worker
    t_loader,         \* the preview page loader thread (load_in_background)
    t_queue,          \* callbacks scheduled with after(), in order
    t_progress,       \* ProgressFrame: is_visible, progress_var
    t_touches         \* every access to a Tk object so far, with the thread that made it

threadVars == <<t_workers, t_loader, t_queue, t_progress, t_touches>>

VARIABLES
    s_env,            \* which libraries can be imported in this installation
    s_pc,             \* where main() is: off, start, importing, running, exited
    s_missing,        \* missing_deps of check_dependencies
    s_warnings,       \* warnings of check_dependencies
    s_step,           \* how many modules of the import chain have been executed
    s_exit            \* the exit status, once the process has exited

startVars == <<s_env, s_pc, s_missing, s_warnings, s_step, s_exit>>

VARIABLES
    th_mode,          \* ThemeManager.current_mode: "light" / "dark"
    th_themes,        \* ThemeManager._themes: the palette of each mode
    th_held,          \* the mapping a caller holds from its last get_colors()
    th_call,          \* observation of the last call: op, mode and colours before it
    th_prev           \* the observation of the call before that

themeVars == <<th_mode, th_themes, th_held, th_call, th_prev>>

VARIABLES
    i_page,           \* the running _processar_pagina_balanceada call: HAS_PIL, len(lista_imagens)
    i_pc,             \* where the call is: idle, images, returned
    i_index,          \* img_index, the next image of the page
    i_stats,          \* stats: total_images, jpeg_images, png_images, resized_images
    i_streams         \* per image handled so far: what was done and the img_data inserted

imageVars == <<i_page, i_pc, i_index, i_stats, i_streams>>

VARIABLES
    st_label,         \* StatusLabel: text (None when ''), auto_hide_id
    st_after,         \* Tk's pending after() callbacks of the label: id, at (due time)
    st_now,           \* seconds since the label was built
    st_shown,         \* the show_message calls so far: auto_hide and the time of each
    st_cleared        \* observation of the last timer callback: text it found, its id, time

statusVars == <<st_label, st_after, st_now, st_shown, st_cleared>>

VARIABLES
    pv_file,          \* the file of the last show_pdf_preview, None after clear_preview
    pv_cards,         \* page_cards: the number each card carries and the image it shows
    pv_images,        \* preview_images: the PhotoImages kept alive
    pv_timers,        \* files whose after(200, _load_remaining_pages_async) is pending
    pv_loaders,       \* running load_in_background threads: file, next page_num
    pv_queue,         \* after(0, _replace_placeholder_with_image) callbacks, in order
    pv_calls          \* show_pdf_preview and clear_preview calls so far

previewVars == <<pv_file, pv_cards, pv_images, pv_timers, pv_loaders, pv_queue, pv_calls>>

VARIABLES
    main_window,      \* sort_btn caption, option variables, rendered rows, previewed file
    w_refresh         \* observation of the last _refresh_ui: the drag before it and at destroy

mainVars == <<main_window, w_refresh>>

\* the variables each component leaves alone
notFM == <<dragVars, mergeVars, optVars, threadVars, startVars, themeVars, imageVars, statusVars, previewVars, mainVars>>
notDrag == <<fmVars, mergeVars, optVars, threadVars, startVars, themeVars, imageVars, statusVars, previewVars, mainVars>>
notMerge == <<fmVars, dragVars, optVars, threadVars, startVars, themeVars, imageVars, statusVars, previewVars, mainVars>>
notOpt == <<fmVars, dragVars, mergeVars, threadVars, startVars, themeVars, imageVars, statusVars, previewVars, mainVars>>
notThreads == <<fmVars, dragVars, mergeVars, optVars, startVars, themeVars, imageVars, statusVars, previewVars, mainVars>>
notStart == <<fmVars, dragVars, mergeVars, optVars, threadVars, themeVars, imageVars, statusVars, previewVars, mainVars>>
notTheme == <<fmVars, dragVars, mergeVars, optVars, threadVars, startVars, imageVars, statusVars, previewVars, mainVars>>
notImages == <<fmVars, dragVars, mergeVars, optVars, threadVars, startVars, themeVars, statusVars, previewVars, mainVars>>
notStatus == <<fmVars, dragVars, mergeVars, optVars, threadVars, startVars, themeVars, imageVars, previewVars, mainVars>>
notPreview == <<fmVars, dragVars, mergeVars, optVars, threadVars, startVars, themeVars, imageVars, statusVars, mainVars>>
notMain == <<mergeVars, optVars, threadVars, startVars, imageVars, statusVars, previewVars>>

\* ------------------------------------------------------------------------
\* Optional[int] of the source: None is the empty tuple, i is <<i>>.
None == << >>
Some(i) == <<i>>

\* ------------------------------------------------------------------------
\* Bounds of the model.
MaxPreviewFiles == 3  \* files that can be previewed
MaxPreviews == 3      \* show_pdf_preview and clear_preview calls
MaxShows == 3         \* show_message calls on one StatusLabel
MaxTime == 8          \* seconds the status label is followed
MaxBatch == 2         \* longest list handed to add_files

\* ------------------------------------------------------------------------
\* The files on disk.  A path is a directory and a base name; the base name
\* is a sequence of character codes (66 = "B", 97 = "a", 98 = "b", 122 = "z").
\* Two paths share the case-folded name "b".
PathB  == [dir |-> "x", base |-> <<98>>]
PathA  == [dir |-> "x", base |-> <<97>>]
PathB2 == [dir |-> "y", base |-> <<66>>]
PathBad == [dir |-> "x", base |-> <<122>>]

ValidPaths == {PathB, PathA, PathB2}
AllPaths == ValidPaths \cup {PathBad}

\* Pages of the PDF stored at a path (0: no PDF the parser accepts).
DiskPages(path) ==
    IF path = PathB THEN 1
    ELSE IF path = PathA THEN 2
    ELSE IF path = PathB2 THEN 1
    ELSE 0

\* PDFValidator.is_valid_pdf: exists, has the extension, parses, has pages.
is_valid_pdf(path) == path \in AllPaths /\ DiskPages(path) > 0

\* os.path.basename
basename(path) == path.base

\* PDFInfo(file_path)
PDFInfo(path) == [path |-> path, name |-> basename(path), pages |-> DiskPages(path)]

\* PDFValidator.get_pdf_info: a PDFInfo, or None
get_pdf_info(path) == IF is_valid_pdf(path) THEN Some(PDFInfo(path)) ELSE None

\* str.lower on a sequence of character codes
lower(name) == [i \in 1..Len(name) |-> IF name[i] >= 65 /\ name[i] <= 90 THEN name[i] + 32 ELSE name[i]]

\* Python's < on strings: lexicographic on the codes, a proper prefix is less.
RECURSIVE StrLess(_, _)
StrLess(a, b) ==
    IF b = << >> THEN FALSE
    ELSE IF a = << >> THEN TRUE
    ELSE IF Head(a) # Head(b) THEN Head(a) < Head(b)
    ELSE StrLess(Tail(a), Tail(b))

\* ------------------------------------------------------------------------
\* The manager as a value: the three fields, and the notifications fired so
\* far by the running call.  Every notification records what the callback
\* can observe when it is invoked.
FM(files, sel, order, notes) == [files |-> files, sel |-> sel, order |-> order, notes |-> notes]

_notify_files_changed(fm) ==
    [fm EXCEPT !.notes = Append(@, [kind |-> "files_changed", index |-> None,
                                    sel |-> fm.sel, total |-> Len(fm.files)])]

_notify_selection_changed(fm) ==
    [fm EXCEPT !.notes = Append(@, [kind |-> "selection_changed", index |-> fm.sel,
                                    sel |-> fm.sel, total |-> Len(fm.files)])]

_is_valid_index(fm, index) == 0 <= index /\ index < Len(fm.files)

is_empty(fm) == Len(fm.files) = 0

\* _set_selection that notifies whether or not the value changed
_set_selection_always_notifies(fm, index) ==
    _notify_selection_changed([fm EXCEPT !.sel = index])

_set_selection(fm, index) ==
    IF fm.sel # index
    THEN _notify_selection_changed([fm EXCEPT !.sel = index])
    ELSE fm

_file_already_exists(fm, path) == \E i \in 1..Len(fm.files) : fm.files[i].path = path

\* add_file without the duplicate test
add_file_unchecked(fm, path) ==
    IF get_pdf_info(path) # None
    THEN <<[fm EXCEPT !.files = Append(@, get_pdf_info(path)[1])], TRUE>>
    ELSE <<fm, FALSE>>

\* add_file: <<manager after, returned bool>>
add_file(fm, path) ==
    IF _file_already_exists(fm, path) THEN <<fm, FALSE>>
    ELSE IF get_pdf_info(path) # None
         THEN <<[fm EXCEPT !.files = Append(@, get_pdf_info(path)[1])], TRUE>>
         ELSE <<fm, FALSE>>

\* _process_file_additions that gives up at the first path add_file refuses
RECURSIVE _process_file_additions_until_refused(_, _)
_process_file_additions_until_refused(fm, paths) ==
    IF paths = << >> THEN <<fm, 0>>
    ELSE LET one == add_file(fm, Head(paths))
         IN IF ~one[2] THEN <<fm, 0>>
            ELSE LET rest == _process_file_additions_until_refused(one[1], Tail(paths))
                 IN <<rest[1], 1 + rest[2]>>

\* _process_file_additions: <<manager after, added_count>>
RECURSIVE _process_file_additions(_, _)
_process_file_additions(fm, paths) ==
    IF paths = << >> THEN <<fm, 0>>
    ELSE LET one == add_file(fm, Head(paths))
             rest == _process_file_additions(one[1], Tail(paths))
         IN <<rest[1], (IF one[2] THEN 1 ELSE 0) + rest[2]>>

\* set_selection (public): index is None or <<i>>
set_selection(fm, index) ==
    IF index # None /\ ~_is_valid_index(fm, index[1]) THEN fm
    ELSE _set_selection(fm, index)

\* add_files: <<manager after, added_count>>
add_files(fm, paths) ==
    LET was_empty == is_empty(fm)
        done == _process_file_additions(fm, paths)
        added_count == done[2]
    IN IF added_count > 0
       THEN LET told == _notify_files_changed(done[1])
            IN <<(IF was_empty THEN set_selection(told, Some(0)) ELSE told), added_count>>
       ELSE <<done[1], added_count>>

\* list.pop(index), list.insert(index, x) with 0-based index in range
Pop(s, index) == SubSeq(s, 1, index) \o SubSeq(s, index + 2, Len(s))
Insert(s, index, x) == SubSeq(s, 1, index) \o <<x>> \o SubSeq(s, index + 1, Len(s))
Swap(s, i, j) == [s EXCEPT ![i + 1] = s[j + 1], ![j + 1] = s[i + 1]]

\* remove_file that leaves a selection behind the removed entry where it was
remove_file_no_shift(fm, index) ==
    IF ~_is_valid_index(fm, index) THEN <<fm, None>>
    ELSE LET removed_pdf == fm.files[index + 1]
             popped == [fm EXCEPT !.files = Pop(@, index)]
             adjusted ==
                 IF popped.sel = Some(index) THEN _set_selection(popped, None)
                 ELSE popped
         IN <<_notify_files_changed(adjusted), Some(removed_pdf)>>

\* remove_file: <<manager after, removed PDFInfo or None>>
remove_file(fm, index) ==
    IF ~_is_valid_index(fm, index) THEN <<fm, None>>
    ELSE LET removed_pdf == fm.files[index + 1]
             popped == [fm EXCEPT !.files = Pop(@, index)]
             adjusted ==
                 IF popped.sel = Some(index) THEN _set_selection(popped, None)
                 ELSE IF popped.sel # None /\ popped.sel[1] > index
                      THEN _notify_selection_changed([popped EXCEPT !.sel = Some(@[1] - 1)])
                      ELSE popped
         IN <<_notify_files_changed(adjusted), Some(removed_pdf)>>

\* move_file_up that leaves the selected index where it was
move_file_up_untracked(fm, index) ==
    IF ~_is_valid_index(fm, index) \/ index = 0 THEN <<fm, FALSE>>
    ELSE <<_notify_files_changed([fm EXCEPT !.files = Swap(@, index, index - 1)]), TRUE>>

\* move_file_up: <<manager after, returned bool>>
move_file_up(fm, index) ==
    IF ~_is_valid_index(fm, index) \/ index = 0 THEN <<fm, FALSE>>
    ELSE LET swapped == [fm EXCEPT !.files = Swap(@, index, index - 1)]
             adjusted ==
                 IF swapped.sel = Some(index)
                 THEN _notify_selection_changed([swapped EXCEPT !.sel = Some(index - 1)])
                 ELSE IF swapped.sel = Some(index - 1)
                      THEN _notify_selection_changed([swapped EXCEPT !.sel = Some(index)])
                      ELSE swapped
         IN <<_notify_files_changed(adjusted), TRUE>>

\* move_file_down: <<manager after, returned bool>>
move_file_down(fm, index) ==
    IF ~_is_valid_index(fm, index) \/ index >= Len(fm.files) - 1 THEN <<fm, FALSE>>
    ELSE LET swapped == [fm EXCEPT !.files = Swap(@, index, index + 1)]
             adjusted ==
                 IF swapped.sel = Some(index)
                 THEN _notify_selection_changed([swapped EXCEPT !.sel = Some(index + 1)])
                 ELSE IF swapped.sel = Some(index + 1)
                      THEN _notify_selection_changed([swapped EXCEPT !.sel = Some(index)])
                      ELSE swapped
         IN <<_notify_files_changed(adjusted), TRUE>>

\* move_file_to_position that exchanges the two entries
move_file_to_position_by_swap(fm, from_index, to_index) ==
    IF ~_is_valid_index(fm, from_index) \/ ~_is_valid_index(fm, to_index) THEN <<fm, FALSE>>
    ELSE IF from_index = to_index THEN <<fm, TRUE>>
    ELSE LET moved == [fm EXCEPT !.files = Swap(@, from_index, to_index)]
             adjusted ==
                 IF moved.sel = Some(from_index)
                 THEN _notify_selection_changed([moved EXCEPT !.sel = Some(to_index)])
                 ELSE moved
         IN <<_notify_files_changed(adjusted), TRUE>>

\* move_file_to_position: <<manager after, returned bool>>
move_file_to_position(fm, from_index, to_index) ==
    IF ~_is_valid_index(fm, from_index) \/ ~_is_valid_index(fm, to_index) THEN <<fm, FALSE>>
    ELSE IF from_index = to_index THEN <<fm, TRUE>>
    ELSE LET pdf_info == fm.files[from_index + 1]
             moved == [fm EXCEPT !.files = Insert(Pop(@, from_index), to_index, pdf_info)]
             adjusted ==
                 IF moved.sel = Some(from_index)
                 THEN _notify_selection_changed([moved EXCEPT !.sel = Some(to_index)])
                 ELSE moved
         IN <<_notify_files_changed(adjusted), TRUE>>

\* clear_all
clear_all(fm) == _notify_files_changed(_set_selection([fm EXCEPT !.files = << >>], None))

_get_opposite_sort_order(fm) == IF fm.order = "asc" THEN "desc" ELSE "asc"

\* list.sort(key=lambda x: x.name.lower(), reverse=...): a stable sort; with
\* reverse the entries of equal key keep their order too.
SortsBefore(x, y, reverse_order) ==
    IF reverse_order THEN StrLess(lower(y.name), lower(x.name))
    ELSE StrLess(lower(x.name), lower(y.name))

RECURSIVE InsertStable(_, _, _)
InsertStable(sorted, x, reverse_order) ==
    IF sorted = << >> THEN <<x>>
    ELSE IF SortsBefore(x, Head(sorted), reverse_order) THEN <<x>> \o sorted
    ELSE <<Head(sorted)>> \o InsertStable(Tail(sorted), x, reverse_order)

RECURSIVE StableSort(_, _)
StableSort(s, reverse_order) ==
    IF s = << >> THEN << >>
    ELSE InsertStable(StableSort(SubSeq(s, 1, Len(s) - 1), reverse_order), s[Len(s)], reverse_order)

_apply_current_sort_order(fm) ==
    [fm EXCEPT !.files = StableSort(@, fm.order = "desc")]

_has_valid_selection(fm) == fm.sel # None /\ fm.sel[1] < Len(fm.files)

_get_selected_file_path(fm) == fm.files[fm.sel[1] + 1].path

\* _find_file_index_by_path: first index holding the path, or None
_find_file_index_by_path(fm, file_path) ==
    LET hits == {i \in 0..(Len(fm.files) - 1) : fm.files[i + 1].path = file_path}
    IN IF hits = {} THEN None
       ELSE Some(CHOOSE i \in hits : \A j \in hits : i <= j)

\* _adjust_selection_after_sort: runs on the list as it is when called
_adjust_selection_after_sort(fm) ==
    IF ~_has_valid_selection(fm) THEN fm
    ELSE LET selected_path == _get_selected_file_path(fm)
             new_index == _find_file_index_by_path(fm, selected_path)
         IN IF new_index # None
            THEN _notify_selection_changed([fm EXCEPT !.sel = new_index])
            ELSE fm

\* toggle_sort_order
toggle_sort_order(fm) ==
    _notify_files_changed(
        _adjust_selection_after_sort(
            _apply_current_sort_order([fm EXCEPT !.order = _get_opposite_sort_order(fm)])))

\* ------------------------------------------------------------------------
\* The manager's operations as actions.
Self == FM(pdf_files, selected_index, sort_order, << >>)

FMCall(op, args, after, result) ==
    /\ pdf_files' = after.files
    /\ selected_index' = after.sel
    /\ sort_order' = after.order
    /\ fm_call' = [op |-> op, args |-> args, files |-> pdf_files, sel |-> selected_index,
                   order |-> sort_order, result |-> result, notes |-> after.notes]

Call(op, args, after, result) == FMCall(op, args, after, result) /\ UNCHANGED notFM

\* sequences of at most n paths
PathLists(n) == UNION {[1..k -> AllPaths] : k \in 0..n}

Indices == (0 - 1)..(Cardinality(ValidPaths))

AddFiles ==
    \E paths \in PathLists(MaxBatch) :
        LET r == add_files(Self, paths) IN Call("add_files", <<paths>>, r[1], r[2])

AddFile ==
    \E path \in AllPaths :
        LET r == add_file(Self, path) IN Call("add_file", <<path>>, r[1], r[2])

RemoveFile ==
    \E index \in Indices :
        LET r == remove_file(Self, index) IN Call("remove_file", <<index>>, r[1], r[2])

MoveFileUp ==
    \E index \in Indices :
        LET r == move_file_up(Self, index) IN Call("move_file_up", <<index>>, r[1], r[2])

MoveFileDown ==
    \E index \in Indices :
        LET r == move_file_down(Self, index) IN Call("move_file_down", <<index>>, r[1], r[2])

MoveFileToPosition ==
    \E from_index \in Indices, to_index \in Indices :
        LET r == move_file_to_position(Self, from_index, to_index)
        IN Call("move_file_to_position", <<from_index, to_index>>, r[1], r[2])

SetSelection ==
    \E index \in {None} \cup {Some(i) : i \in Indices} :
        Call("set_selection", <<index>>, set_selection(Self, index), None)

ClearAll == Call("clear_all", << >>, clear_all(Self), None)

ToggleSortOrder == Call("toggle_sort_order", << >>, toggle_sort_order(Self), None)

InitFM ==
    /\ pdf_files = << >>
    /\ selected_index = None
    /\ sort_order = "asc"
    /\ fm_call = [op |-> "__init__", args |-> << >>, files |-> << >>, sel |-> None,
                  order |-> "asc", result |-> None, notes |-> << >>]

NextFM ==
    \/ AddFiles
    \/ AddFile
    \/ RemoveFile
    \/ MoveFileUp
    \/ MoveFileDown
    \/ MoveFileToPosition
    \/ SetSelection
    \/ ClearAll
    \/ ToggleSortOrder

\* ------------------------------------------------------------------------
\* DragDropManager: the internal row drag (ui/drag_drop.py).

MaxRows == 3          \* rows a drag can start on or end at
MaxY == 2             \* pointer y_root values 0..MaxY (pixels)

drag_threshold == 1
DRAG_ITEM_HEIGHT == 60

\* canvas-relative y of a release, for the row-height fallback
CanvasYs == {0, DRAG_ITEM_HEIGHT - 1, DRAG_ITEM_HEIGHT, 2 * DRAG_ITEM_HEIGHT + 5}

abs(n) == IF n < 0 THEN 0 - n ELSE n
max(a, b) == IF a >= b THEN a ELSE b

NoDrag == [item |-> None, y |-> 0, started |-> FALSE]

NoGesture == [phase |-> "idle", origin |-> None, y0 |-> 0, max_dy |-> 0,
              clicked |-> << >>, moved |-> << >>]

\* _clear_drag_state that removes the overlay and keeps the drag data
_clear_overlay_only == [drag_data EXCEPT !.started = FALSE]

\* _clear_drag_state (the overlay is disabled: use_overlay = False)
_clear_drag_state == NoDrag

\* is_dragging
is_dragging == drag_data.item # None

InitDrag ==
    /\ drag_data = NoDrag
    /\ drop_helpers = FALSE
    /\ drop_indicator = FALSE
    /\ gesture = NoGesture

\* set_drop_helpers(get_drop_index, show_drop_indicator, hide_drop_indicator)
SetDropHelpers ==
    /\ ~drop_helpers
    /\ drop_helpers' = TRUE
    /\ UNCHANGED <<drag_data, drop_indicator, gesture, notDrag>>

\* start_item_drag(event, item_index): press on the handle of row item_index
StartItemDrag ==
    \E y_root \in 0..MaxY, item_index \in 0..(MaxRows - 1) :
        /\ drag_data' = [item |-> Some(item_index), y |-> y_root, started |-> FALSE]
        /\ gesture' = [phase |-> "pressed", origin |-> Some(item_index), y0 |-> y_root,
                       max_dy |-> 0, clicked |-> <<item_index>>, moved |-> << >>]
        /\ UNCHANGED <<drop_helpers, drop_indicator, notDrag>>

\* the gesture as observed: the largest distance of the pointer from the press
Observe(y_root) ==
    IF gesture.phase = "pressed"
    THEN [gesture EXCEPT !.max_dy = max(@, abs(y_root - gesture.y0))]
    ELSE gesture

\* _on_internal_drag(event): helper_ok is whether get_drop_index and
\* show_drop_indicator return (an exception of either is swallowed)
OnInternalDrag ==
    \E y_root \in 0..MaxY, helper_ok \in BOOLEAN :
        LET y_diff == abs(y_root - drag_data.y)
            started == drag_data.started \/ y_diff >= drag_threshold
        IN /\ IF drag_data.item # None
              THEN /\ drag_data' = [drag_data EXCEPT !.started = started]
                   /\ drop_indicator' =
                        IF started /\ drop_helpers /\ helper_ok THEN TRUE ELSE drop_indicator
              ELSE UNCHANGED <<drag_data, drop_indicator>>
           /\ gesture' = Observe(y_root)
           /\ UNCHANGED <<drop_helpers, notDrag>>

\* the target index _on_internal_drop computes: the helper's answer when the
\* helper is installed, else the row under the pointer by the fixed row height
DropTarget(helper_index, canvas_y) ==
    IF drop_helpers THEN helper_index ELSE canvas_y \div DRAG_ITEM_HEIGHT

\* _on_internal_drop(event): in_canvas is whether the event widget has a
\* Canvas ancestor; helper_raises is get_drop_index raising
OnInternalDrop ==
    \E y_root \in 0..MaxY, in_canvas \in BOOLEAN, helper_raises \in BOOLEAN,
       helper_index \in 0..(MaxRows - 1), canvas_y \in CanvasYs :
        LET old_index == drag_data.item[1]
            new_index == DropTarget(helper_index, canvas_y)
            fires == /\ drag_data.item # None
                     /\ in_canvas
                     /\ ~(drop_helpers /\ helper_raises)
                     /\ old_index # new_index
        IN /\ gesture' = [Observe(y_root) EXCEPT
                            !.phase = IF gesture.phase = "pressed" THEN "released" ELSE @,
                            !.moved = IF fires THEN Append(@, <<old_index, new_index>>) ELSE @]
           /\ drop_indicator' = IF drop_helpers THEN FALSE ELSE drop_indicator
           /\ drag_data' = _clear_drag_state
           /\ UNCHANGED <<drop_helpers, notDrag>>

\* cancel_current_drag
CancelCurrentDrag ==
    /\ drag_data.item # None
    /\ drag_data' = _clear_drag_state
    /\ gesture' = NoGesture
    /\ UNCHANGED <<drop_helpers, drop_indicator, notDrag>>

NextDrag ==
    \/ SetDropHelpers
    \/ StartItemDrag
    \/ OnInternalDrag
    \/ OnInternalDrop
    \/ CancelCurrentDrag

\* ------------------------------------------------------------------------
\* The file list of the main window (main_window.py): the rows of the list
\* and the release of a row drag, as wired by set_drop_helpers and
\* set_callbacks (get_drop_index = _get_drop_index, on_item_moved =
\* _on_item_moved).

RowHeight == 4   \* winfo_height() of a row of the list

min(a, b) == IF a <= b THEN a ELSE b

\* winfo_y() of row i: the rows are stacked from the top of the list
winfo_y(i) == i * RowHeight

\* canvas.canvasy(event.y) of a release over or just below the list
DropYs == 0..(Cardinality(ValidPaths) * RowHeight)

\* canvas_y < top + h / 2, and mid_i <= canvas_y < mid_next
AboveMiddle(canvas_y, i) == 2 * canvas_y < 2 * winfo_y(i) + max(1, RowHeight)

\* _get_drop_index with n rows shown; lookup is "ok", or "raises" when no
\* Canvas is found or a widget call fails (the answer is then from_index)
_get_drop_index(n, canvas_y, from_index, lookup) ==
    IF lookup = "raises" THEN from_index
    ELSE IF n = 0 THEN 0
    ELSE IF AboveMiddle(canvas_y, 0) THEN 0
    ELSE LET between == {i \in 0..(n - 2) :
                            ~AboveMiddle(canvas_y, i) /\ AboveMiddle(canvas_y, i + 1)}
         IN IF between # {}
            THEN LET raw == (CHOOSE i \in between : \A j \in between : i <= j) + 1
                 IN min(raw, n - 1)
            ELSE n - 1

\* _on_item_moved: the manager after the call
_on_item_moved(fm, from_index, to_index) ==
    LET max_index == Len(fm.files) - 1
        clamped == max(0, min(to_index, max_index))
    IN move_file_to_position(fm, from_index, clamped)[1]

\* DragDropManager._on_internal_drop for a drag of row from_index, with the
\* helpers of the main window installed: _get_drop_index, then
\* _on_item_moved when the index differs.  One row is shown per file.
ItemDropped ==
    \E from_index \in 0..(Len(pdf_files) - 1), canvas_y \in DropYs, lookup \in {"ok", "raises"} :
        LET new_index == _get_drop_index(Len(pdf_files), canvas_y, from_index, lookup)
            after == IF from_index # new_index
                     THEN _on_item_moved(Self, from_index, new_index)
                     ELSE Self
        IN Call("_on_internal_drop", <<from_index, canvas_y>>, after,
                [new_index |-> new_index, lookup |-> lookup])

NextWindow == NextFM \/ ItemDropped

\* ------------------------------------------------------------------------
\* PDFMerger (core/pdf_handler.py).  Lengths are in tenths of a point
\* (595.276 pt is 5953, the tolerance of 1.0 pt is 10).

MaxMergeFiles == 3    \* longest pdf_files list handed to the merge engine
MaxPagesPerFile == 2  \* most pages of one input file

A4_WIDTH == 5953
A4_HEIGHT == 8419
SIZE_TOLERANCE == 10
MIN_FILES_TO_MERGE == 2
MERGE_PROGRESS == 80
SAVE_PROGRESS == 85
COMPRESS_PROGRESS == 90
VERIFY_PROGRESS == 95
COMPLETE_PROGRESS == 100

\* A media box is <<width, height>>; a page whose /MediaBox cannot be read
\* (absent or malformed: page.mediabox raises) has NoBox.
NoBox == << >>
A4Box == <<A4_WIDTH, A4_HEIGHT>>
LetterBox == <<6120, 7920>>
ZeroBox == <<0, 1000>>

\* The media boxes of the pages of the PDF stored at a path.
DiskBoxes(path) ==
    IF path = PathB THEN <<A4Box>>
    ELSE IF path = PathA THEN <<LetterBox, ZeroBox>>
    ELSE IF path = PathB2 THEN <<NoBox>>
    ELSE << >>

\* os.path.getsize of an input
DiskSize(path) == 1000 * DiskPages(path)

\* reader.pages of the file at a path
ReaderPages(path) ==
    [k \in 1..Len(DiskBoxes(path)) |-> [src |-> <<path, k>>, box |-> DiskBoxes(path)[k], via |-> "reader"]]

\* a progress value is the fraction <<numerator, denominator>>
Frac(n, d) == <<n, d>>

\* _is_page_a4_compliant / _needs_scaling on a readable box
_is_page_a4_compliant(width, height) ==
    abs(width - A4_WIDTH) <= SIZE_TOLERANCE /\ abs(height - A4_HEIGHT) <= SIZE_TOLERANCE

_needs_scaling(width, height) ==
    abs(width - A4_WIDTH) > SIZE_TOLERANCE \/ abs(height - A4_HEIGHT) > SIZE_TOLERANCE

\* page.scale(f, f) with f = min(A4_WIDTH / width, A4_HEIGHT / height)
ScaleBox(box) ==
    IF A4_WIDTH * box[2] <= A4_HEIGHT * box[1]
    THEN <<A4_WIDTH, (box[2] * A4_WIDTH) \div box[1]>>
    ELSE <<(box[1] * A4_HEIGHT) \div box[2], A4_HEIGHT>>

\* _ensure_a4_mediabox on a page whose media box can be read
_ensure_a4_mediabox(page) == [page EXCEPT !.box = A4Box]

\* scale_factor != 1.0 for a box with no zero side
ScaleFactorIsOne(box) ==
    \/ box[1] = A4_WIDTH /\ box[2] <= A4_HEIGHT
    \/ box[2] = A4_HEIGHT /\ box[1] <= A4_WIDTH

\* _try_basic_scaling: every exception is swallowed
_try_basic_scaling(page, env) ==
    IF page.box = NoBox THEN page
    ELSE IF _needs_scaling(page.box[1], page.box[2]) /\ page.box[1] # 0 /\ page.box[2] # 0
              /\ ~ScaleFactorIsOne(page.box) /\ ~env.scale_raises
         THEN _ensure_a4_mediabox([page EXCEPT !.box = ScaleBox(@)])
         ELSE page

\* _apply_emergency_fallback: _ensure_a4_mediabox raises on a page whose
\* media box cannot be read, and the page is then returned as it is
_apply_emergency_fallback(page, env) ==
    IF page.box = NoBox
    THEN [page EXCEPT !.via = "emergency_failed"]
    ELSE [_try_basic_scaling(_ensure_a4_mediabox(page), env) EXCEPT !.via = "emergency"]

\* _apply_fallback_a4_sizing
_apply_fallback_a4_sizing(page) == [_ensure_a4_mediabox(page) EXCEPT !.via = "fallback"]

\* _standardize_page_to_a4.  env.scale_raises: page.scale raises;
\* env.merge_ok: one of the merge methods of _merge_page_to_a4 succeeds.
_standardize_page_to_a4(page, env) ==
    IF page.box = NoBox THEN _apply_emergency_fallback(page, env)
    ELSE IF page.box[1] = 0 \/ page.box[2] = 0 THEN _apply_emergency_fallback(page, env)
    ELSE IF env.scale_raises THEN _apply_emergency_fallback(page, env)
    ELSE LET scaled_page == [page EXCEPT !.box = ScaleBox(@)]
         IN IF env.merge_ok
            THEN [_ensure_a4_mediabox([src |-> page.src, box |-> A4Box, via |-> "blank"])
                     EXCEPT !.via = "normal"]
            ELSE _apply_fallback_a4_sizing(scaled_page)

Envs == [scale_raises : BOOLEAN, merge_ok : BOOLEAN]

\* _standardize_all_pages: one environment per page
_standardize_all_pages(pages, envs) ==
    [k \in 1..Len(pages) |-> _standardize_page_to_a4(pages[k], envs[k])]

\* the source of a page that comes from no input
BlankSource == <<[dir |-> "", base |-> << >>], 0>>

\* _create_blank_a4_page_with_space
_create_blank_a4_page_with_space == [src |-> BlankSource, box |-> A4Box, via |-> "blank"]

RECURSIVE SumPages(_)
SumPages(files) == IF files = << >> THEN 0 ELSE files[1].pages + SumPages(Tail(files))

RECURSIVE SumSizes(_)
SumSizes(files) == IF files = << >> THEN 0 ELSE DiskSize(files[1].path) + SumSizes(Tail(files))

\* the file at output_path: not there, written whole, or cut short
NoFile == [state |-> "absent", pages |-> << >>]
File(pages) == [state |-> "written", pages |-> pages]
Torn == [state |-> "torn", pages |-> << >>]

NoCall == [op |-> "none", pdf_files |-> << >>, standardize_to_a4 |-> FALSE]
NoTemp == [created |-> 0, live |-> 0]

InitMerge ==
    /\ m_call = NoCall
    /\ m_pc = "idle"
    /\ m_i = 0
    /\ m_merger = << >>
    /\ m_output = NoFile
    /\ m_progress = << >>
    /\ m_temp = NoTemp
    /\ m_faults = {}
    /\ m_passes = << >>
    /\ m_result = None

MergeInputs == UNION {[1..k -> {PDFInfo(p) : p \in ValidPaths}] : k \in 0..MaxMergeFiles}

\* _validate_merge_inputs passes
_validate_merge_inputs_always(files) == TRUE

_validate_merge_inputs(files) == Len(files) >= MIN_FILES_TO_MERGE

\* the blank page unify adds after input i of total (none after the last)
BlankAfterEvery(i, total) == <<_create_blank_a4_page_with_space>>

BlankAfter(i, total) ==
    IF i < total - 1 THEN <<_create_blank_a4_page_with_space>> ELSE << >>

Raise(exc, file, message) ==
    [success |-> FALSE, exc |-> exc, file |-> file, message |-> message]

\* merge_pdfs: _validate_merge_inputs, then the first progress report
CallMergePdfs ==
    \E files \in MergeInputs, a4 \in BOOLEAN :
        /\ m_pc = "idle"
        /\ m_call' = [op |-> "merge_pdfs", pdf_files |-> files, standardize_to_a4 |-> a4]
        /\ IF ~_validate_merge_inputs(files)
           THEN /\ m_pc' = "raised"
                /\ m_result' = Raise("ValueError", None, "Selecione pelo menos 2 arquivos PDF")
                /\ UNCHANGED m_progress
           ELSE /\ m_pc' = "file"
                /\ m_progress' = <<Frac(0, 1)>>
                /\ UNCHANGED m_result
        /\ UNCHANGED <<m_i, m_merger, m_output, m_temp, m_faults, m_passes, notMerge>>

\* unify_docs_to_a4_with_blank_space: the length test, then the first report
CallUnify ==
    \E files \in MergeInputs :
        /\ m_pc = "idle"
        /\ m_call' = [op |-> "unify", pdf_files |-> files, standardize_to_a4 |-> TRUE]
        /\ IF Len(files) < 1
           THEN /\ m_pc' = "raised"
                /\ m_result' = Raise("ValueError", None, "Selecione pelo menos 1 arquivo PDF")
                /\ UNCHANGED m_progress
           ELSE /\ m_pc' = "file"
                /\ m_progress' = <<Frac(0, 1)>>
                /\ UNCHANGED m_result
        /\ UNCHANGED <<m_i, m_merger, m_output, m_temp, m_faults, m_passes, notMerge>>

CurrentFile == m_call.pdf_files[m_i + 1]
total_files == Len(m_call.pdf_files)

\* the exception a failing step of merge_pdfs / unify reaches the caller as
Wrapped(file, message) ==
    Raise("RuntimeError", file, message)

\* One iteration of the loop of _merge_files: progress, _process_single_file.
\* fault: the step of this iteration that raises ("none": no step does).
ProcessFile ==
    \E fault \in {"none", "open", "temp_write", "append"},
       envs \in [1..MaxPagesPerFile -> Envs] :
        LET pages == ReaderPages(CurrentFile.path)
            a4 == m_call.standardize_to_a4
            added == IF a4 THEN _standardize_all_pages(pages, envs) ELSE pages
        IN /\ m_pc = "file" /\ m_call.op = "merge_pdfs" /\ m_i < total_files
           /\ fault = "temp_write" => a4
           /\ m_progress' = Append(m_progress, Frac(m_i * MERGE_PROGRESS, total_files))
           /\ m_temp' = IF a4 /\ fault # "open"
                        THEN [created |-> m_temp.created + 1,
                              live |-> m_temp.live + (IF fault = "temp_write" THEN 1 ELSE 0)]
                        ELSE m_temp
           /\ IF fault = "none"
              THEN /\ m_merger' = m_merger \o added
                   /\ m_i' = m_i + 1
                   /\ m_pc' = IF m_i + 1 < total_files THEN "file" ELSE "save"
                   /\ UNCHANGED <<m_result, m_faults>>
              ELSE /\ m_pc' = "raised"
                   /\ m_result' = Wrapped(Some(CurrentFile.name), fault)
                   /\ m_faults' = m_faults \cup {fault}
                   /\ UNCHANGED <<m_merger, m_i>>
           /\ UNCHANGED <<m_call, m_output, m_passes, notMerge>>

\* One iteration of the loop of unify_docs_to_a4_with_blank_space.
UnifyFile ==
    \E fault \in {"none", "open"}, envs \in [1..MaxPagesPerFile -> Envs] :
        LET pages == ReaderPages(CurrentFile.path)
            added == _standardize_all_pages(pages, envs)
            blank == BlankAfter(m_i, total_files)
        IN /\ m_pc = "file" /\ m_call.op = "unify" /\ m_i < total_files
           /\ m_progress' = Append(m_progress, Frac(m_i * 80, total_files))
           /\ IF fault = "none"
              THEN /\ m_merger' = m_merger \o added \o blank
                   /\ m_i' = m_i + 1
                   /\ m_pc' = IF m_i + 1 < total_files THEN "file" ELSE "save"
                   /\ UNCHANGED <<m_result, m_faults>>
              ELSE /\ m_pc' = "raised"
                   /\ m_result' = Wrapped(Some(CurrentFile.name), fault)
                   /\ m_faults' = m_faults \cup {fault}
                   /\ UNCHANGED <<m_merger, m_i>>
           /\ UNCHANGED <<m_call, m_output, m_temp, m_passes, notMerge>>

\* _save_merged_file (and the same lines of unify): report, open, write.
\* fault "save_open": open(output_path, 'wb') raises; "save_write": the
\* write raises after the file was created.
SaveMergedFile ==
    \E fault \in {"none", "save_open", "save_write"} :
        /\ m_pc = "save"
        /\ m_progress' = Append(m_progress, Frac(SAVE_PROGRESS, 1))
        /\ m_output' = IF fault = "none" THEN File(m_merger)
                       ELSE IF fault = "save_write" THEN Torn ELSE m_output
        /\ IF fault = "none"
           THEN /\ m_pc' = "compress"
                /\ UNCHANGED <<m_result, m_faults>>
           ELSE /\ m_pc' = "raised"
                /\ m_result' = Wrapped(None, fault)
                /\ m_faults' = m_faults \cup {fault}
        /\ UNCHANGED <<m_call, m_i, m_merger, m_temp, m_passes, notMerge>>

\* optimize_pdf_images as seen by _balanced_reconstruction: a success record
\* (the file is rebuilt page by page and moved over output_path), a failure
\* record, or an exception; pages keep their size (new_page(width, height)).
OptimizerOutcomes == {"success", "failure_record", "raises"}

\* _basic_compression: rewrites the file in place; every exception is
\* swallowed.  "fails_early": it raises before the file is opened for
\* writing; "fails_in_write": it raises while writing over the file.
BasicOutcomes == {"ok", "fails_early", "fails_in_write"}

\* _balanced_reconstruction whose except clause lets the exception out
\* after its own fallback, so that _compress_pdf falls back as well
_balanced_reconstruction_reraising(optimizer) ==
    IF optimizer = "success" THEN <<"optimize_pdf_images">>
    ELSE IF optimizer = "failure_record" THEN <<"optimize_pdf_images", "_basic_compression">>
    ELSE <<"optimize_pdf_images", "_basic_compression", "_basic_compression">>

\* _balanced_reconstruction: the passes it runs.  optimize_pdf_images, then
\* _basic_compression in the else branch (failure record) or in the except
\* clause (the optimizer raised); nothing gets out of it.
_balanced_reconstruction(optimizer) ==
    IF optimizer = "success" THEN <<"optimize_pdf_images">>
    ELSE <<"optimize_pdf_images", "_basic_compression">>

\* _compress_pdf: the passes it runs.  Its own except clause is not reached
\* through _balanced_reconstruction.
_compress_pdf(optimizer) == _balanced_reconstruction(optimizer)

\* the file after _compress_pdf
Compressed(file, optimizer, basic) ==
    IF optimizer = "success" THEN file
    ELSE IF basic = "fails_in_write" THEN Torn
    ELSE file

\* The rest of the call after the save.  merge_pdfs: _finalize_merge
\* (report, _compress_pdf, report and _verify_a4_standardization when
\* standardizing, report) and _build_merge_result.  unify: report,
\* _compress_pdf, report, the result record.
FinalizeMerge ==
    \E optimizer \in OptimizerOutcomes, basic \in BasicOutcomes :
        LET a4 == m_call.standardize_to_a4
            files == m_call.pdf_files
            original_size == SumSizes(files)
            verify == IF m_call.op = "merge_pdfs" /\ a4 THEN <<Frac(VERIFY_PROGRESS, 1)>> ELSE << >>
            faults == (IF optimizer = "success" THEN {} ELSE {"optimizer_" \o optimizer})
                      \cup (IF optimizer # "success" /\ basic # "ok" THEN {"basic_" \o basic} ELSE {})
        IN /\ m_pc = "compress"
           /\ optimizer = "success" => basic = "ok"
           /\ m_progress' = m_progress
                              \o <<Frac(COMPRESS_PROGRESS, 1), Frac(50, 1)>>
                              \o verify
                              \o <<Frac(COMPLETE_PROGRESS, 1)>>
           /\ m_output' = Compressed(m_output, optimizer, basic)
           /\ m_passes' = _compress_pdf(optimizer)
           /\ m_faults' = m_faults \cup faults
           /\ IF original_size = 0
              THEN /\ m_pc' = "raised"
                   /\ m_result' = Wrapped(None, "division by zero")
              ELSE /\ m_pc' = "done"
                   /\ m_result' =
                        IF m_call.op = "merge_pdfs"
                        THEN [success |-> TRUE,
                              original_size |-> original_size,
                              total_pages |-> SumPages(files),
                              files_merged |-> Len(files),
                              standardized_to_a4 |-> a4]
                        ELSE [success |-> TRUE,
                              original_size |-> original_size,
                              total_pages |-> Len(m_merger),
                              files_unified |-> Len(files),
                              standardized_to_a4 |-> TRUE,
                              blank_spaces_added |-> IF Len(files) > 1 THEN Len(files) - 1 ELSE 0]
           /\ UNCHANGED <<m_call, m_i, m_merger, m_temp, notMerge>>

\* the caller has taken the result; the engine can be called again
MergeReturn ==
    /\ m_pc \in {"done", "raised"}
    /\ m_call' = NoCall
    /\ m_pc' = "idle"
    /\ m_i' = 0
    /\ m_merger' = << >>
    /\ m_output' = NoFile
    /\ m_progress' = << >>
    /\ m_temp' = NoTemp
    /\ m_faults' = {}
    /\ m_passes' = << >>
    /\ m_result' = None
    /\ UNCHANGED <<notMerge>>

NextMerge ==
    \/ CallMergePdfs
    \/ CallUnify
    \/ ProcessFile
    \/ UnifyFile
    \/ SaveMergedFile
    \/ FinalizeMerge
    \/ MergeReturn

\* ------------------------------------------------------------------------
\* optimize_pdf_images (core/pdf_image_optimizer.py)

MaxDocPages == 2      \* most pages of the document handed to the optimizer
MaxImages == 2        \* most images on one page

NoStats == [images_processed |-> 0, pages_processed |-> 0, jpeg_images |-> 0,
            png_images |-> 0, resized_images |-> 0]

NoOptCall == [has_pymupdf |-> TRUE, input_exists |-> TRUE, pages |-> 0, original_size |-> 0]

InitOpt ==
    /\ o_in = NoOptCall
    /\ o_pc = "idle"
    /\ o_page = 0
    /\ o_stats = NoStats
    /\ o_disk = [output |-> "input", temp |-> 0]
    /\ o_result = [kind |-> "none"]

\* raise exc
OptRaise(exc) == [kind |-> "raise", exc |-> exc]

\* compression_ratio, rounded down to a whole percentage
Ratio(original_size, final_size) == ((original_size - final_size) * 100) \div original_size

\* the record of the except branch, with final_size = original_size
FailureRecordKeepingSize(original_size, stats, error_msg) ==
    [kind |-> "record", success |-> FALSE, original_size |-> original_size,
     final_size |-> original_size, compression_ratio |-> 0, stats |-> stats,
     error_message |-> Some(error_msg)]

\* the record of the except branch
FailureRecord(original_size, stats, error_msg) ==
    [kind |-> "record", success |-> FALSE, original_size |-> original_size,
     final_size |-> 0, compression_ratio |-> 0, stats |-> stats,
     error_message |-> Some(error_msg)]

\* the record of the try branch
SuccessRecord(original_size, final_size, stats) ==
    [kind |-> "record", success |-> TRUE, original_size |-> original_size,
     final_size |-> final_size, compression_ratio |-> Ratio(original_size, final_size),
     stats |-> stats, error_message |-> None]

error_msg(e) == "Erro durante otimizacao inteligente: " \o e

\* optimize_pdf_images up to the try block: the two checks that raise, the
\* initial statistics
CallOptimize ==
    \E has_pymupdf \in BOOLEAN, input_exists \in BOOLEAN,
       pages \in 1..MaxDocPages, original_size \in {0, 2048} :
        /\ o_pc = "idle"
        /\ o_in' = [has_pymupdf |-> has_pymupdf, input_exists |-> input_exists,
                    pages |-> pages, original_size |-> original_size]
        /\ IF ~has_pymupdf
           THEN o_pc' = "returned" /\ o_result' = OptRaise("RuntimeError")
           ELSE IF ~input_exists
           THEN o_pc' = "returned" /\ o_result' = OptRaise("FileNotFoundError")
           ELSE o_pc' = "open" /\ UNCHANGED o_result
        /\ UNCHANGED <<o_page, o_stats, o_disk, notOpt>>

\* fitz.open(input_path), fitz.open(), _limpar_metadados_completo
OpenDocument ==
    \E ok \in BOOLEAN :
        /\ o_pc = "open"
        /\ IF ok
           THEN o_pc' = "pages" /\ UNCHANGED o_result
           ELSE /\ o_pc' = "returned"
                /\ o_result' = FailureRecord(o_in.original_size, o_stats, error_msg("open"))
        /\ UNCHANGED <<o_in, o_page, o_stats, o_disk, notOpt>>

\* one iteration of the page loop: new_page, _processar_pagina_balanceada
\* (its statistics), _copiar_conteudo_texto_apenas
ProcessPage ==
    \E ok \in BOOLEAN, total \in 0..MaxImages, jpeg \in 0..MaxImages,
       png \in 0..MaxImages, resized \in 0..MaxImages :
        /\ o_pc = "pages" /\ o_page < o_in.pages
        /\ jpeg + png <= total /\ resized <= total
        /\ IF ok
           THEN /\ o_stats' = [images_processed |-> o_stats.images_processed + total,
                               pages_processed |-> o_stats.pages_processed + 1,
                               jpeg_images |-> o_stats.jpeg_images + jpeg,
                               png_images |-> o_stats.png_images + png,
                               resized_images |-> o_stats.resized_images + resized]
                /\ o_page' = o_page + 1
                /\ o_pc' = IF o_page + 1 < o_in.pages THEN "pages" ELSE "save"
                /\ UNCHANGED o_result
           ELSE /\ o_pc' = "returned"
                /\ o_result' = FailureRecord(o_in.original_size, o_stats, error_msg("page"))
                /\ UNCHANGED <<o_stats, o_page>>
        /\ UNCHANGED <<o_in, o_disk, notOpt>>

\* the temporary file, doc_novo.save, shutil.move, the final statistics.
\* fault: the step that raises ("none": no step does; with original_size = 0
\* the division of compression_ratio raises after the move).
SaveOptimized ==
    \E fault \in {"none", "save", "move"}, final_size \in {1024, 2048, 4096} :
        LET moved == fault = "none"
            divides == o_in.original_size # 0
        IN /\ o_pc = "save"
           /\ o_disk' = [output |-> IF moved THEN "optimized" ELSE o_disk.output,
                         temp |-> IF moved THEN o_disk.temp ELSE o_disk.temp + 1]
           /\ o_result' = IF moved /\ divides
                          THEN SuccessRecord(o_in.original_size, final_size, o_stats)
                          ELSE FailureRecord(o_in.original_size, o_stats,
                                             error_msg(IF moved THEN "division by zero" ELSE fault))
           /\ o_pc' = "returned"
           /\ UNCHANGED <<o_in, o_page, o_stats, notOpt>>

\* the caller has taken the result; the function can be called again
OptReturn ==
    /\ o_pc = "returned"
    /\ o_in' = NoOptCall
    /\ o_pc' = "idle"
    /\ o_page' = 0
    /\ o_stats' = NoStats
    /\ o_disk' = [output |-> "input", temp |-> 0]
    /\ o_result' = [kind |-> "none"]
    /\ UNCHANGED <<notOpt>>

NextOpt ==
    \/ CallOptimize
    \/ OpenDocument
    \/ ProcessPage
    \/ SaveOptimized
    \/ OptReturn

\* ------------------------------------------------------------------------
\* Threads of the main window (main_window.py) and of the preview (ui/preview.py)

MaxWorkers == 2        \* merge worker threads alive at once
MaxProgressCalls == 2  \* progress callbacks of one merge
MaxQueue == 2          \* callbacks waiting in the event loop
MaxPreviewPages == 6   \* pages of a previewed file
InitialPages == 4

\* the Tk widgets; a PhotoImage is a Tk image, not a widget
Widgets == {"progress_frame", "status_label", "dialog", "page_cards"}

Touch(target, op, thread) == [target |-> target, op |-> op, thread |-> thread]

\* a callback handed to after(), with its argument
After(fn, arg) == [fn |-> fn, arg |-> arg]

IdleWorker == [pc |-> "idle", calls |-> 0]
IdleLoader == [pc |-> "idle", page |-> 0, total |-> 0]

InitThreads ==
    /\ t_workers = [w \in 1..MaxWorkers |-> IdleWorker]
    /\ t_loader = IdleLoader
    /\ t_queue = << >>
    /\ t_progress = [is_visible |-> FALSE, progress_var |-> 0]
    /\ t_touches = {}

\* ProgressFrame.show / hide / update_progress
show(frame) == [frame EXCEPT !.is_visible = TRUE]
hide(frame) == IF frame.is_visible THEN [is_visible |-> FALSE, progress_var |-> 0] ELSE frame
update_progress(frame, value) == [frame EXCEPT !.progress_var = value]

\* the objects of the main window that belong to the UI thread
Managers == {"file_manager", "theme_manager", "drag_drop"}

\* _merge_pdfs, on the UI thread: has_enough_files_to_merge, the warning,
\* the save dialog, the thread
MergePdfs ==
    \E enough \in BOOLEAN, output_file \in BOOLEAN, w \in 1..MaxWorkers :
        LET asked == Touch("file_manager", "has_enough_files_to_merge", "ui")
        IN
        /\ t_workers[w].pc = "idle"
        /\ IF ~enough
           THEN /\ t_touches' = t_touches \cup {asked, Touch("dialog", "showwarning", "ui")}
                /\ UNCHANGED t_workers
           ELSE IF ~output_file
           THEN /\ t_touches' = t_touches \cup {asked, Touch("dialog", "asksaveasfilename", "ui")}
                /\ UNCHANGED t_workers
           ELSE /\ t_touches' = t_touches \cup {asked, Touch("dialog", "asksaveasfilename", "ui")}
                /\ t_workers' = [t_workers EXCEPT ![w] = [pc |-> "show", calls |-> 0]]
        /\ UNCHANGED <<t_loader, t_queue, t_progress, notThreads>>

\* _merge_worker up to the call of merge_pdfs: self.progress_frame.show(...),
\* whose StatusLabel.show_message asks the theme manager for the colours when
\* the frame was hidden, and pdf_files = self.file_manager.pdf_files
WorkerShowProgress ==
    \E w \in 1..MaxWorkers :
        /\ t_workers[w].pc = "show"
        /\ t_progress' = show(t_progress)
        /\ t_touches' = t_touches
                          \cup {Touch("progress_frame", "show", "worker"),
                                Touch("file_manager", "pdf_files", "worker")}
                          \cup (IF t_progress.is_visible THEN {}
                                ELSE {Touch("theme_manager", "get_colors", "worker")})
        /\ t_workers' = [t_workers EXCEPT ![w].pc = "merge"]
        /\ UNCHANGED <<t_loader, t_queue, notThreads>>

\* merge_pdfs calls the progress callback, _on_merge_progress, on the
\* thread that called merge_pdfs
WorkerProgressCallback ==
    \E w \in 1..MaxWorkers, value \in {0, COMPLETE_PROGRESS} :
        /\ t_workers[w].pc = "merge"
        /\ t_workers[w].calls < MaxProgressCalls
        /\ t_progress' = update_progress(t_progress, value)
        /\ t_touches' = t_touches \cup {Touch("progress_frame", "update_progress", "worker")}
        /\ t_workers' = [t_workers EXCEPT ![w].calls = @ + 1]
        /\ UNCHANGED <<t_loader, t_queue, notThreads>>

\* _merge_worker after merge_pdfs returned (ok) or raised: hide, after(0, dialog),
\* and _show_status in the except branch
WorkerFinish ==
    \E w \in 1..MaxWorkers, ok \in BOOLEAN :
        /\ t_workers[w].pc = "merge"
        /\ Len(t_queue) < MaxQueue
        /\ t_progress' = hide(t_progress)
        /\ t_queue' = Append(t_queue, After(IF ok THEN "_show_merge_success_dialog" ELSE "showerror", 0))
        /\ t_touches' = t_touches
                          \cup {Touch("progress_frame", "hide", "worker")}
                          \cup (IF ok THEN {} ELSE {Touch("status_label", "show_message", "worker")})
        /\ t_workers' = [t_workers EXCEPT ![w] = IdleWorker]
        /\ UNCHANGED <<t_loader, notThreads>>

\* show_pdf_preview / _generate_optimized_preview_grid, on the UI thread
ShowPdfPreview ==
    \E total_pages \in 1..MaxPreviewPages :
        /\ Len(t_queue) < MaxQueue
        /\ t_touches' = t_touches \cup {Touch("page_cards", "_create_page_preview", "ui")}
        /\ t_queue' = IF total_pages > InitialPages
                      THEN Append(t_queue, After("_load_remaining_pages_async", total_pages))
                      ELSE t_queue
        /\ UNCHANGED <<t_workers, t_loader, t_progress, notThreads>>

\* the event loop runs the callback at the head of the queue, on the UI thread
RunScheduled ==
    /\ t_queue # << >>
    /\ LET callback == Head(t_queue)
       IN IF callback.fn \in {"_show_merge_success_dialog", "showerror"}
          THEN /\ t_touches' = t_touches \cup {Touch("dialog", callback.fn, "ui")}
               /\ UNCHANGED t_loader
          ELSE IF callback.fn = "_load_remaining_pages_async"
          THEN /\ t_loader.pc = "idle"
               /\ t_loader' = [pc |-> "loading", page |-> InitialPages, total |-> callback.arg]
               /\ UNCHANGED t_touches
          ELSE /\ t_touches' = t_touches \cup {Touch("page_cards", "_replace_placeholder_with_image", "ui")}
               /\ UNCHANGED t_loader
    /\ t_queue' = Tail(t_queue)
    /\ UNCHANGED <<t_workers, t_progress, notThreads>>

\* load_in_background, one page: render, ImageTk.PhotoImage, after(0, ...);
\* an exception ends the thread
LoaderLoadPage ==
    \E ok \in BOOLEAN :
        /\ t_loader.pc = "loading"
        /\ Len(t_queue) < MaxQueue
        /\ IF ok
           THEN /\ t_touches' = t_touches \cup {Touch("PhotoImage", "create", "loader")}
                /\ t_queue' = Append(t_queue, After("_replace_placeholder_with_image", t_loader.page))
                /\ t_loader' = IF t_loader.page + 1 < t_loader.total
                               THEN [t_loader EXCEPT !.page = @ + 1]
                               ELSE IdleLoader
           ELSE /\ t_loader' = IdleLoader
                /\ UNCHANGED <<t_touches, t_queue>>
        /\ UNCHANGED <<t_workers, t_progress, notThreads>>

NextThreads ==
    \/ MergePdfs
    \/ WorkerShowProgress
    \/ WorkerProgressCallback
    \/ WorkerFinish
    \/ ShowPdfPreview
    \/ RunScheduled
    \/ LoaderLoadPage

\* ------------------------------------------------------------------------
\* Startup (main.py) and the imports its modules execute

Libraries == {"PyPDF2", "PyPDF4", "Crypto", "tkinterdnd2", "PIL", "fitz", "pikepdf"}

\* an installation: the libraries that can be imported, and whether the
\* interpreter evaluates annotations when a function is defined
Installations == [libs : SUBSET Libraries, eager_annotations : BOOLEAN]

\* the names config.py defines that other modules import by name
ConfigNames == {"DEFAULT_FONT_FAMILY", "BUTTON_FONT_SIZE", "PREVIEW_SCALE", "PREVIEW_MAX_WIDTH",
                "DRAG_ITEM_HEIGHT", "SUPPORTED_EXTENSIONS", "MESSAGES"}

REQUIRED_DEPENDENCIES == <<"PyPDF2", "PyCryptodome">>
OPTIONAL_DEPENDENCIES == <<"tkinterdnd2", "PIL", "fitz">>

\* _check_dependency
_check_dependency(env, module_name) ==
    IF module_name = "PyPDF2" THEN "PyPDF2" \in env.libs \/ "PyPDF4" \in env.libs
    ELSE IF module_name = "PyCryptodome" THEN "Crypto" \in env.libs
    ELSE module_name \in env.libs

\* check_dependencies: (missing_deps, warnings)
check_dependencies(env) ==
    <<{REQUIRED_DEPENDENCIES[k] : k \in {j \in 1..Len(REQUIRED_DEPENDENCIES) :
                                          ~_check_dependency(env, REQUIRED_DEPENDENCIES[j])}},
      {OPTIONAL_DEPENDENCIES[k] : k \in {j \in 1..Len(OPTIONAL_DEPENDENCIES) :
                                          ~_check_dependency(env, OPTIONAL_DEPENDENCIES[j])}}>>

\* The module bodies "from main_window import PDFMergerMainWindow" executes,
\* in the order their first failing statement can be reached.
ImportChain == <<"config", "ui.themes", "core.pdf_compressor", "ui.components",
                 "core.pdf_handler", "core.pdf_image_optimizer", "ui.preview",
                 "ui.drag_drop", "core.file_manager", "main_window">>

\* what executing the body of a module does: "ok", or the exception it raises
ImportOutcome(env, module) ==
    IF module = "core.pdf_compressor"
    THEN IF "pikepdf" \notin env.libs \/ "PIL" \notin env.libs THEN "ImportError" ELSE "ok"
    ELSE IF module = "core.pdf_handler"
    THEN IF "PyPDF2" \notin env.libs THEN "ImportError"
         ELSE IF "COMPRESSION_LEVELS" \notin ConfigNames THEN "ImportError"
         ELSE "ok"
    ELSE IF module = "core.pdf_image_optimizer"
    THEN IF env.eager_annotations /\ ("fitz" \notin env.libs \/ "PIL" \notin env.libs)
         THEN "NameError" ELSE "ok"
    ELSE "ok"

InitStart ==
    /\ s_env = [libs |-> Libraries, eager_annotations |-> TRUE]
    /\ s_pc = "off"
    /\ s_missing = {}
    /\ s_warnings = {}
    /\ s_step = 0
    /\ s_exit = None

\* the program is started in some installation
StartMain ==
    \E env \in Installations :
        /\ s_pc = "off"
        /\ s_env' = env
        /\ s_pc' = "start"
        /\ UNCHANGED <<s_missing, s_warnings, s_step, s_exit, notStart>>

\* main: check_dependencies, show_dependency_info, sys.exit(1) on a missing
\* required dependency
CheckDependencies ==
    LET checked == check_dependencies(s_env)
    IN /\ s_pc = "start"
       /\ s_missing' = checked[1]
       /\ s_warnings' = checked[2]
       /\ IF checked[1] # {}
          THEN s_pc' = "exited" /\ s_exit' = Some(1)
          ELSE s_pc' = "importing" /\ UNCHANGED s_exit
       /\ UNCHANGED <<s_env, s_step, notStart>>

\* _initialize_application: the next module body of the import; after the
\* last one, the window is constructed and app.run() enters the event loop.
\* ImportError goes to _handle_import_error, any other exception to
\* _handle_unexpected_error; both end in sys.exit(1).
ImportNext ==
    /\ s_pc = "importing"
    /\ LET outcome == ImportOutcome(s_env, ImportChain[s_step + 1])
       IN IF outcome # "ok"
          THEN s_pc' = "exited" /\ s_exit' = Some(1) /\ UNCHANGED s_step
          ELSE /\ s_step' = s_step + 1
               /\ s_pc' = IF s_step + 1 = Len(ImportChain) THEN "running" ELSE "importing"
               /\ UNCHANGED s_exit
    /\ UNCHANGED <<s_env, s_missing, s_warnings, notStart>>

NextStart ==
    \/ StartMain
    \/ CheckDependencies
    \/ ImportNext

\* ------------------------------------------------------------------------
\* ------------------------------------------------------------------------
\* The theme manager (ui/themes.py).

\* the palette entries followed here
ColorNames == {"bg_primary", "text_primary"}

\* what a caller may write into a mapping it holds
Paints == {"#000000", "#FAFBFC"}

ThemeModes == {"light", "dark"}

\* _initialize_themes, restricted to ColorNames
_initialize_themes ==
    [mode \in ThemeModes |->
        IF mode = "light"
        THEN [name \in ColorNames |-> IF name = "bg_primary" THEN "#FAFBFC" ELSE "#1C1E21"]
        ELSE [name \in ColorNames |-> IF name = "bg_primary" THEN "#0D1117" ELSE "#F0F6FC"]]

\* A dictionary handed to a caller: its contents, and the palette of
\* _themes it is the same object as ("none" for an object of its own).
Handed(shares, colors) == [held |-> TRUE, shares |-> shares, colors |-> colors]

NothingHeld == [held |-> FALSE, shares |-> "none", colors |-> [name \in ColorNames |-> ""]]

\* get_colors that hands out the palette itself
get_colors_without_copy(themes, mode) == Handed(mode, themes[mode])

\* get_colors: self._themes[self.current_mode].copy()
get_colors(themes, mode) == Handed("none", themes[mode])

\* toggle_theme: the mode after the call (also its return value)
toggle_theme_result(mode) == IF mode = "light" THEN "dark" ELSE "light"

ThemeCall(op, arg) ==
    [op |-> op, arg |-> arg, mode |-> th_mode, colors |-> get_colors(th_themes, th_mode).colors]

InitTheme ==
    /\ th_mode = "light"
    /\ th_themes = _initialize_themes
    /\ th_held = NothingHeld
    /\ th_call = [op |-> "__init__", arg |-> "light", mode |-> "light",
                  colors |-> _initialize_themes["light"]]
    /\ th_prev = th_call

ToggleTheme ==
    /\ th_mode' = toggle_theme_result(th_mode)
    /\ th_call' = ThemeCall("toggle_theme", "")
    /\ th_prev' = th_call
    /\ UNCHANGED <<th_themes, th_held, notTheme>>

\* set_theme(mode): every ThemeMode is a key of _themes
SetTheme ==
    \E mode \in ThemeModes :
        /\ th_mode' = (IF mode \in DOMAIN th_themes THEN mode ELSE th_mode)
        /\ th_call' = ThemeCall("set_theme", mode)
        /\ th_prev' = th_call
        /\ UNCHANGED <<th_themes, th_held, notTheme>>

GetColors ==
    /\ th_held' = get_colors(th_themes, th_mode)
    /\ th_call' = ThemeCall("get_colors", "")
    /\ th_prev' = th_call
    /\ UNCHANGED <<th_mode, th_themes, notTheme>>

\* the caller assigns colors[name] = paint on the mapping it holds; a
\* dictionary that is one of the palettes of _themes changes there as well
MutateHeld ==
    \E name \in ColorNames, paint \in Paints :
        /\ th_held.held
        /\ th_held' = [th_held EXCEPT !.colors[name] = paint]
        /\ th_themes' = IF th_held.shares = "none" THEN th_themes
                        ELSE [th_themes EXCEPT ![th_held.shares][name] = paint]
        /\ th_call' = ThemeCall("mutate", name)
        /\ th_prev' = th_call
        /\ UNCHANGED <<th_mode, notTheme>>

NextTheme == ToggleTheme \/ SetTheme \/ GetColors \/ MutateHeld

\* ------------------------------------------------------------------------
\* The image loop of one page (core/pdf_image_optimizer.py,
\* _processar_pagina_balanceada).

MaxPageImages == 2

\* 1024 * 1024, the literal of the size test
LARGE_IMAGE_SIZE == 1048576

LARGE_DIMENSION_THRESHOLD == 3000

\* len(img_data) of the images met: at the limit, one byte above it, and
\* the next length above it that is a multiple of ten
ImageSizes == {LARGE_IMAGE_SIZE, LARGE_IMAGE_SIZE + 1, LARGE_IMAGE_SIZE + 4}

\* len(img_data_comprimida): the last length under nine tenths of
\* original_size and the two lengths after it
ReencodedSizes(original_size) ==
    LET under == (9 * original_size - 1) \div 10
    IN {under, under + 1, under + 2}

\* pil_image.size[0], pil_image.size[1] of a decoded image
Dimensions == {<<LARGE_DIMENSION_THRESHOLD, LARGE_DIMENSION_THRESHOLD>>,
               <<LARGE_DIMENSION_THRESHOLD + 1, 100>>,
               <<100, LARGE_DIMENSION_THRESHOLD + 1>>}

\* an embedded image and what the libraries do with it
Images ==
    [original_size : ImageSizes,
     ext : {"jpeg", "png"},
     extract : {"ok", "raises"},          \* extract_image / get_image_rects
     pil : {"ok", "open_raises", "compress_raises"},
     dimensions : Dimensions,
     reencoded_size : UNION {ReencodedSizes(size) : size \in ImageSizes}]

\* the size test of the loop, taking images at the limit as well
is_large_image_or_at_limit(has_pil, original_size) ==
    has_pil /\ original_size >= LARGE_IMAGE_SIZE

\* if HAS_PIL and original_size > 1024 * 1024
is_large_image(has_pil, original_size) ==
    has_pil /\ original_size > LARGE_IMAGE_SIZE

\* len(img_data_comprimida) < original_size * 0.90.  The product is a
\* double; for lengths of this magnitude it is the exact nine tenths rounded
\* to a double, which is the integer itself when nine tenths is an integer,
\* so the test agrees with the integer comparison.
reduces_enough(reencoded_size, original_size) ==
    10 * reencoded_size < 9 * original_size

Stream(data, length) == [data |-> data, length |-> length]

NotHandled == [image |-> "skipped", original_size |-> 0, reencoded_size |-> 0,
               decoded |-> FALSE, resized |-> FALSE, reencoded |-> FALSE,
               inserted |-> Stream("none", 0)]

\* One pass of the loop body for an image whose data could be extracted:
\* what Pillow was asked to do and the img_data handed to insert_image.
Handle(has_pil, img) ==
    LET original == Stream("original", img.original_size)
        wide == img.dimensions[1] > LARGE_DIMENSION_THRESHOLD
                \/ img.dimensions[2] > LARGE_DIMENSION_THRESHOLD
    IN IF ~is_large_image(has_pil, img.original_size)
       THEN [image |-> "handled", original_size |-> img.original_size, reencoded_size |-> 0,
             decoded |-> FALSE, resized |-> FALSE, reencoded |-> FALSE,
             inserted |-> original]
       ELSE IF img.pil = "open_raises"
       THEN [image |-> "handled", original_size |-> img.original_size, reencoded_size |-> 0,
             decoded |-> FALSE, resized |-> FALSE, reencoded |-> FALSE,
             inserted |-> original]
       ELSE IF img.pil = "compress_raises"
       THEN [image |-> "handled", original_size |-> img.original_size, reencoded_size |-> 0,
             decoded |-> TRUE, resized |-> wide, reencoded |-> FALSE,
             inserted |-> original]
       ELSE [image |-> "handled", original_size |-> img.original_size,
             reencoded_size |-> img.reencoded_size,
             decoded |-> TRUE, resized |-> wide, reencoded |-> TRUE,
             inserted |-> IF reduces_enough(img.reencoded_size, img.original_size)
                          THEN Stream("reencoded", img.reencoded_size)
                          ELSE original]

NoPage == [has_pil |-> FALSE, total |-> 0]

NoImageStats == [total_images |-> 0, jpeg_images |-> 0, png_images |-> 0, resized_images |-> 0]

InitImages ==
    /\ i_page = NoPage
    /\ i_pc = "idle"
    /\ i_index = 0
    /\ i_stats = NoImageStats
    /\ i_streams = << >>

\* the call: get_images and stats['total_images'], or the outer except
\* when get_images raises
CallProcessPage ==
    \E has_pil \in BOOLEAN, total \in 0..MaxPageImages, get_images \in {"ok", "raises"} :
        /\ i_pc = "idle"
        /\ i_index' = 0
        /\ i_streams' = << >>
        /\ IF get_images = "raises"
           THEN /\ i_page' = [has_pil |-> has_pil, total |-> 0]
                /\ i_stats' = NoImageStats
                /\ i_pc' = "returned"
           ELSE /\ i_page' = [has_pil |-> has_pil, total |-> total]
                /\ i_stats' = [NoImageStats EXCEPT !.total_images = total]
                /\ i_pc' = "images"
        /\ UNCHANGED <<notImages>>

\* one pass of the loop over lista_imagens
ProcessImage ==
    \E img \in Images :
        /\ i_pc = "images"
        /\ i_index < i_page.total
        /\ img.reencoded_size \in ReencodedSizes(img.original_size)
        /\ i_index' = i_index + 1
        /\ IF img.extract = "raises"
           THEN /\ i_streams' = Append(i_streams, NotHandled)
                /\ UNCHANGED i_stats
           ELSE LET done == Handle(i_page.has_pil, img)
                IN /\ i_streams' = Append(i_streams, done)
                   /\ i_stats' = [i_stats EXCEPT
                        !.resized_images = @ + (IF done.resized THEN 1 ELSE 0),
                        !.jpeg_images = @ + (IF img.ext = "jpeg" THEN 1 ELSE 0),
                        !.png_images = @ + (IF img.ext = "png" THEN 1 ELSE 0)]
        /\ UNCHANGED <<i_page, i_pc, notImages>>

\* the loop is over: return stats
ReturnStats ==
    /\ i_pc = "images"
    /\ i_index = i_page.total
    /\ i_pc' = "returned"
    /\ UNCHANGED <<i_page, i_index, i_stats, i_streams, notImages>>

\* the caller has added the statistics to its counters; next page
NextPage ==
    /\ i_pc = "returned"
    /\ i_page' = NoPage
    /\ i_pc' = "idle"
    /\ i_index' = 0
    /\ i_stats' = NoImageStats
    /\ i_streams' = << >>
    /\ UNCHANGED <<notImages>>

NextImages == CallProcessPage \/ ProcessImage \/ ReturnStats \/ NextPage

\* ------------------------------------------------------------------------
\* StatusLabel (src/ui/components.py). A message is named by the number of the
\* show_message call that displayed it; the id of an after() callback is the
\* number of the call that scheduled it.

\* self.after(5000, self.hide), in seconds
AUTO_HIDE_DELAY == 5

NoClear == [text |-> None, id |-> 0, at |-> 0]

\* StatusLabel.show_message(message, message_type, auto_hide) as call number n
\* at time now: <<label after, pending callbacks after>>
show_message(label, pending, n, auto_hide, now) ==
    LET shown == [label EXCEPT !.text = Some(n)]
    IN  IF auto_hide
        THEN LET kept == IF label.auto_hide_id # None
                         THEN {timer \in pending : Some(timer.id) # label.auto_hide_id}
                         ELSE pending
             IN  <<[shown EXCEPT !.auto_hide_id = Some(n)],
                   kept \cup {[id |-> n, at |-> now + AUTO_HIDE_DELAY]}>>
        ELSE <<shown, pending>>

\* StatusLabel.hide(): <<label after, pending callbacks after>>
StatusLabel_hide(label, pending) ==
    <<[text |-> None, auto_hide_id |-> None],
      IF label.auto_hide_id # None
      THEN {timer \in pending : Some(timer.id) # label.auto_hide_id}
      ELSE pending>>

InitStatus ==
    /\ st_label = [text |-> None, auto_hide_id |-> None]
    /\ st_after = {}
    /\ st_now = 0
    /\ st_shown = << >>
    /\ st_cleared = NoClear

\* a caller shows a message, with or without auto-hide
ShowMessage ==
    /\ Len(st_shown) < MaxShows
    /\ \E auto_hide \in BOOLEAN :
        LET n == Len(st_shown) + 1
            after == show_message(st_label, st_after, n, auto_hide, st_now)
        IN  /\ st_label' = after[1]
            /\ st_after' = after[2]
            /\ st_shown' = Append(st_shown, [auto_hide |-> auto_hide, at |-> st_now])
    /\ UNCHANGED <<st_now, st_cleared, notStatus>>

\* a caller hides the label (ProgressFrame.hide does)
HideLabel ==
    /\ LET after == StatusLabel_hide(st_label, st_after)
       IN  /\ st_label' = after[1]
           /\ st_after' = after[2]
    /\ UNCHANGED <<st_now, st_shown, st_cleared, notStatus>>

\* Tk runs a due after() callback, which is self.hide
AutoHide ==
    /\ \E timer \in st_after :
        /\ timer.at = st_now
        /\ LET after == StatusLabel_hide(st_label, st_after \ {timer})
           IN  /\ st_label' = after[1]
               /\ st_after' = after[2]
        /\ st_cleared' = [text |-> st_label.text, id |-> timer.id, at |-> st_now]
    /\ UNCHANGED <<st_now, st_shown, notStatus>>

\* a second passes; the callbacks that are due run first
Tick ==
    /\ st_now < MaxTime
    /\ \A timer \in st_after : timer.at # st_now
    /\ st_now' = st_now + 1
    /\ UNCHANGED <<st_label, st_after, st_shown, st_cleared, notStatus>>

NextStatus == ShowMessage \/ HideLabel \/ AutoHide \/ Tick

\* ------------------------------------------------------------------------
\* The preview grid (src/ui/preview.py). File f has InitialPages - 1 + f
\* pages; a PhotoImage is named by the file and the page it was rendered from.

PreviewFiles == 1..MaxPreviewFiles

\* len(doc) after fitz.open(pdf_info.path)
total_pages(file) == InitialPages - 1 + file

\* the PhotoImage made from page page_num (counted from 0) of the file
PhotoImage(file, page_num) == [file |-> file, page |-> page_num + 1]

\* _clear_preview: <<page_cards, preview_images>> after
_clear_preview == << << >>, << >> >>

\* _generate_optimized_preview_grid on a cleared grid: real cards for the
\* first pages, placeholders for the rest
_generate_optimized_preview_grid(file) ==
    LET initial_pages_to_load == min(InitialPages, total_pages(file))
    IN  << [k \in 1..total_pages(file) |->
               [number |-> k,
                image |-> IF k <= initial_pages_to_load
                          THEN Some(PhotoImage(file, k - 1)) ELSE None]],
           [k \in 1..initial_pages_to_load |-> PhotoImage(file, k - 1)] >>

\* _replace_placeholder_with_image(page_num, photo): <<page_cards, preview_images>> after
_replace_placeholder_with_image(cards, images, page_num, photo) ==
    IF page_num < Len(cards)
    THEN << [cards EXCEPT ![page_num + 1] = [number |-> page_num + 1, image |-> Some(photo)]],
            Append(images, photo) >>
    ELSE <<cards, images>>

InitPreview ==
    /\ pv_file = None
    /\ pv_cards = << >>
    /\ pv_images = << >>
    /\ pv_timers = << >>
    /\ pv_loaders = {}
    /\ pv_queue = << >>
    /\ pv_calls = 0

\* show_pdf_preview(pdf_info) with the preview libraries present
PreviewFile ==
    /\ pv_calls < MaxPreviews
    /\ \E file \in PreviewFiles :
        LET grid == _generate_optimized_preview_grid(file)
        IN  /\ pv_file' = Some(file)
            /\ pv_cards' = grid[1]
            /\ pv_images' = grid[2]
            /\ pv_timers' = IF total_pages(file) > min(InitialPages, total_pages(file))
                            THEN Append(pv_timers, file) ELSE pv_timers
    /\ pv_calls' = pv_calls + 1
    /\ UNCHANGED <<pv_loaders, pv_queue, notPreview>>

\* clear_preview(): _show_simple_placeholder, which starts with _clear_preview
ClearPreview ==
    /\ pv_calls < MaxPreviews
    /\ pv_file' = None
    /\ pv_cards' = _clear_preview[1]
    /\ pv_images' = _clear_preview[2]
    /\ pv_calls' = pv_calls + 1
    /\ UNCHANGED <<pv_timers, pv_loaders, pv_queue, notPreview>>

\* the 200 ms timer runs _load_remaining_pages_async, which starts a thread
LoadRemainingPagesAsync ==
    /\ pv_timers # << >>
    /\ pv_loaders' = pv_loaders \cup {[file |-> Head(pv_timers), page_num |-> InitialPages]}
    /\ pv_timers' = Tail(pv_timers)
    /\ UNCHANGED <<pv_file, pv_cards, pv_images, pv_queue, pv_calls, notPreview>>

\* load_in_background renders one page and schedules its callback; after the
\* last page the thread ends
LoadInBackground ==
    /\ \E loader \in pv_loaders :
        /\ pv_queue' = Append(pv_queue, [page_num |-> loader.page_num,
                                         photo |-> PhotoImage(loader.file, loader.page_num)])
        /\ pv_loaders' = (pv_loaders \ {loader})
                           \cup (IF loader.page_num + 1 < total_pages(loader.file)
                                 THEN {[loader EXCEPT !.page_num = @ + 1]} ELSE {})
    /\ UNCHANGED <<pv_file, pv_cards, pv_images, pv_timers, pv_calls, notPreview>>

\* the event loop runs the oldest _replace_placeholder_with_image callback
ReplacePlaceholder ==
    /\ pv_queue # << >>
    /\ LET callback == Head(pv_queue)
           after == _replace_placeholder_with_image(pv_cards, pv_images,
                                                    callback.page_num, callback.photo)
       IN  /\ pv_cards' = after[1]
           /\ pv_images' = after[2]
    /\ pv_queue' = Tail(pv_queue)
    /\ UNCHANGED <<pv_file, pv_timers, pv_loaders, pv_calls, notPreview>>

NextPreview ==
    \/ PreviewFile
    \/ ClearPreview
    \/ LoadRemainingPagesAsync
    \/ LoadInBackground
    \/ ReplacePlaceholder

\* ------------------------------------------------------------------------
\* The main window (src/main_window.py): the sort button, the option
\* variables, the rows of the list, the preview, and the rebuild of the
\* interface on a theme change. The release of a row drag is in NextWindow.

\* the caption _toggle_sort_order gives the sort button
sort_btn_text(order) == IF order = "asc" THEN "A-Z" ELSE "Z-A"

\* FileListManager.selected_pdf
selected_pdf(fm) ==
    IF fm.sel # None /\ 0 <= fm.sel[1] /\ fm.sel[1] < Len(fm.files)
    THEN Some(fm.files[fm.sel[1] + 1]) ELSE None

\* _show_file_items: one row per file, highlighted when its index is selected
_show_file_items(fm) ==
    [k \in 1..Len(fm.files) |-> [name |-> fm.files[k].name, is_selected |-> Some(k - 1) = fm.sel]]

\* what the preview shows after show_pdf_preview / clear_preview
Previewed(pdf) == IF pdf # None THEN Some(pdf[1].path) ELSE None

\* _create_interface: the widgets as built, before any list is rendered
_create_interface ==
    [sort_btn |-> "A-Z",
     options |-> [compression_var |-> "a4_only", standardize_a4_var |-> TRUE],
     rows |-> << >>,
     preview |-> None]

\* _on_files_changed / _on_selection_changed for the notifications of one
\* manager call (the manager's state is final when it notifies)
Notified(win, fm) ==
    LET listed == IF fm.notes # << >> THEN [win EXCEPT !.rows = _show_file_items(fm)] ELSE win
    IN  IF \E k \in 1..Len(fm.notes) : fm.notes[k].kind = "selection_changed"
        THEN [listed EXCEPT !.preview = IF fm.sel # None /\ selected_pdf(fm) = None
                                        THEN win.preview
                                        ELSE Previewed(selected_pdf(fm))]
        ELSE listed

\* _refresh_ui that rebuilds the interface and does not render the list again
_refresh_ui_without_restore(win, fm) ==
    LET built == _create_interface
    IN  [built EXCEPT !.options = win.options]

\* _refresh_ui after cancel_current_drag: the window after the rebuild
_refresh_ui(win, fm) ==
    LET current_compression == win.options.compression_var
        current_a4_standardize == win.options.standardize_a4_var
        built == _create_interface
        restored == [built EXCEPT
                       !.options.compression_var =
                           IF current_compression # "" THEN current_compression ELSE @,
                       !.options.standardize_a4_var = current_a4_standardize]
        listed == IF ~is_empty(fm) THEN [restored EXCEPT !.rows = _show_file_items(fm)]
                  ELSE restored
    IN  IF fm.sel # None /\ selected_pdf(fm) # None
        THEN [listed EXCEPT !.preview = Previewed(selected_pdf(fm))]
        ELSE listed

NoRefresh == [done |-> FALSE, was_dragging |-> FALSE, dragging_at_destroy |-> FALSE]

InitMain ==
    /\ main_window = _create_interface
    /\ w_refresh = NoRefresh

\* _on_files_dropped(file_paths): file_manager.add_files(file_paths), here with
\* one path dropped at a time
MainAddFiles ==
    \E path \in AllPaths :
        LET r == add_files(Self, <<path>>)
        IN  /\ FMCall("add_files", <<(<<path>>)>>, r[1], r[2])
            /\ main_window' = Notified(main_window, r[1])
            /\ UNCHANGED <<w_refresh, dragVars, themeVars, notMain>>

\* _on_item_clicked(index): file_manager.set_selection(index)
MainItemClicked ==
    \E index \in 0..(Len(pdf_files) - 1) :
        LET after == set_selection(Self, Some(index))
        IN  /\ FMCall("set_selection", <<Some(index)>>, after, None)
            /\ main_window' = Notified(main_window, after)
            /\ UNCHANGED <<w_refresh, dragVars, themeVars, notMain>>

\* _toggle_sort_order
MainToggleSortOrder ==
    LET after == toggle_sort_order(Self)
    IN  /\ FMCall("toggle_sort_order", << >>, after, None)
        /\ main_window' = [Notified(main_window, after) EXCEPT
                              !.sort_btn = sort_btn_text(after.order)]
        /\ UNCHANGED <<w_refresh, dragVars, themeVars, notMain>>

\* _toggle_theme: theme_manager.toggle_theme(), then _refresh_ui, which
\* cancels the drag, destroys the widgets and builds them again
MainToggleTheme ==
    /\ th_mode' = toggle_theme_result(th_mode)
    /\ th_call' = ThemeCall("toggle_theme", "")
    /\ th_prev' = th_call
    /\ LET cancelled == _clear_drag_state
       IN  /\ drag_data' = cancelled
           /\ w_refresh' = [done |-> TRUE, was_dragging |-> is_dragging,
                            dragging_at_destroy |-> cancelled.item # None]
    /\ gesture' = NoGesture
    /\ drop_indicator' = FALSE
    /\ main_window' = _refresh_ui(main_window, Self)
    /\ UNCHANGED <<fmVars, drop_helpers, th_themes, th_held, notMain>>

\* a press on the handle of a rendered row (the handle is bound per row)
MainStartItemDrag == StartItemDrag /\ drag_data'.item[1] < Len(main_window.rows)

NextMain ==
    \/ MainAddFiles
    \/ MainItemClicked
    \/ MainToggleSortOrder
    \/ MainToggleTheme
    \/ MainStartItemDrag

vars == <<fmVars, dragVars, mergeVars, optVars, threadVars, startVars, themeVars, imageVars,
         statusVars, previewVars, mainVars>>

Init == InitFM /\ InitDrag /\ InitMerge /\ InitOpt /\ InitThreads /\ InitStart /\ InitTheme /\ InitImages
        /\ InitStatus /\ InitPreview /\ InitMain

SpecFM == Init /\ [][NextFM]_vars

SpecDrag == Init /\ [][NextDrag]_vars

SpecMerge == Init /\ [][NextMerge]_vars

SpecOpt == Init /\ [][NextOpt]_vars

SpecThreads == Init /\ [][NextThreads]_vars

SpecStartup == Init /\ [][NextStart]_vars

SpecTheme == Init /\ [][NextTheme]_vars

SpecImages == Init /\ [][NextImages]_vars

SpecWindow == Init /\ [][NextWindow]_vars

SpecStatus == Init /\ [][NextStatus]_vars

SpecPreview == Init /\ [][NextPreview]_vars

SpecMain == Init /\ [][NextMain]_vars

\* ------------------------------------------------------------------------
\* Properties of the file list manager (SpecFM).

PathAt(files, sel) == files[sel[1] + 1].path

InBounds(sel, total) == sel = None \/ (0 <= sel[1] /\ sel[1] < total)

\* C1: after toggle_sort_order on a list with a selection, the selected index
\* points to the entry whose path was selected before the toggle.
C1_SelectionFollowsFileOnSort ==
    (fm_call.op = "toggle_sort_order" /\ fm_call.sel # None)
        => (selected_index # None
            /\ PathAt(pdf_files, selected_index) = PathAt(fm_call.files, fm_call.sel))

\* C9: in every reachable state, and whenever a notification callback is
\* invoked, the selected index is absent or 0 <= index < number of files.
C9_SelectionInBounds ==
    /\ InBounds(selected_index, Len(pdf_files))
    /\ \A k \in 1..Len(fm_call.notes) :
          InBounds(fm_call.notes[k].sel, fm_call.notes[k].total)

\* C9 witness: a removal in front of the selection has shifted it, and the
\* selection-changed callback has been invoked with the shifted index.
C9_Witness ==
    /\ fm_call.op = "remove_file"
    /\ fm_call.sel # None /\ selected_index # None
    /\ fm_call.args[1] < fm_call.sel[1]
    /\ fm_call.sel[1] = Len(fm_call.files) - 1
    /\ \E k \in 1..Len(fm_call.notes) : fm_call.notes[k].kind = "selection_changed"

HasPath(files, path) == \E i \in 1..Len(files) : files[i].path = path

\* C10: no two entries share a path; add_file of a path already present
\* returns false and changes nothing; add_files([p, p]) of a PDF p not yet
\* listed returns 1.
C10_NoDuplicatePaths ==
    /\ \A i, j \in 1..Len(pdf_files) : i # j => pdf_files[i].path # pdf_files[j].path
    /\ (fm_call.op = "add_file" /\ HasPath(fm_call.files, fm_call.args[1]))
          => /\ fm_call.result = FALSE
             /\ pdf_files = fm_call.files
             /\ selected_index = fm_call.sel
             /\ sort_order = fm_call.order
             /\ fm_call.notes = << >>
    /\ (/\ fm_call.op = "add_files"
        /\ Len(fm_call.args[1]) = 2
        /\ fm_call.args[1][1] = fm_call.args[1][2]
        /\ is_valid_pdf(fm_call.args[1][1])
        /\ ~HasPath(fm_call.files, fm_call.args[1][1]))
          => /\ fm_call.result = 1
             /\ Len(pdf_files) = Len(fm_call.files) + 1

\* C10 witness: add_files([p, p]) was called on a non-empty list without p.
C10_Witness ==
    /\ fm_call.op = "add_files"
    /\ Len(fm_call.args[1]) = 2
    /\ fm_call.args[1][1] = fm_call.args[1][2]
    /\ fm_call.files # << >>
    /\ ~HasPath(fm_call.files, fm_call.args[1][1])
    /\ fm_call.result = 1

\* ------------------------------------------------------------------------
\* Properties of the drag manager (SpecDrag).

\* C2: a gesture (start_item_drag, moves, release) whose pointer never gets
\* drag_threshold away from the press position fires no item-moved callback.
C2_NoMoveBelowThreshold ==
    (gesture.phase = "released" /\ gesture.max_dy < drag_threshold)
        => gesture.moved = << >>

\* ------------------------------------------------------------------------
\* Properties of the merge engine

\* the pages every input contributes, in input order; with blanks, one blank
\* page after every input but the last
RECURSIVE ExpectedSources(_, _)
ExpectedSources(files, blanks) ==
    IF files = << >> THEN << >>
    ELSE [k \in 1..files[1].pages |-> <<files[1].path, k>>]
           \o (IF blanks /\ Len(files) > 1 THEN <<BlankSource>> ELSE << >>)
           \o ExpectedSources(Tail(files), blanks)

Sources(pages) == [k \in 1..Len(pages) |-> pages[k].src]

Compliant(page) ==
    page.box # NoBox /\ _is_page_a4_compliant(page.box[1], page.box[2])

\* C3: in a run that standardizes to A4, every page handed to the output has
\* a media box within SIZE_TOLERANCE of A4_WIDTH x A4_HEIGHT, whichever of the
\* normal, fallback and emergency paths produced it.
C3_EveryPageA4 ==
    m_call.standardize_to_a4 =>
        \A k \in 1..Len(m_merger) : Compliant(m_merger[k])

FatalFaults == {"open", "temp_write", "append", "save_open", "save_write"}

\* C5: merge_pdfs with fewer than MIN_FILES_TO_MERGE inputs raises ValueError
\* with no progress reported and the output path untouched; with exactly two
\* valid inputs, a call that ends without an environment failure ends in a
\* success record with files_merged = 2.
C5_MergeNeedsTwoFiles ==
    m_call.op = "merge_pdfs" =>
        /\ Len(m_call.pdf_files) < 2 =>
              /\ m_pc = "raised" /\ m_result.exc = "ValueError"
              /\ m_progress = << >> /\ m_output = NoFile /\ m_merger = << >>
        /\ (Len(m_call.pdf_files) = 2 /\ m_pc \in {"done", "raised"}
              /\ m_faults \cap FatalFaults = {}) =>
              /\ m_pc = "done" /\ m_result.success /\ m_result.files_merged = 2

C5_Witness ==
    /\ m_call.op = "merge_pdfs" /\ Len(m_call.pdf_files) = 2
    /\ m_pc = "done" /\ m_result.files_merged = 2

\* ------------------------------------------------------------------------
\* Properties of optimize_pdf_images

C7_WidgetsOnlyFromUIThread ==
    \A touch \in t_touches : touch.target \in Widgets => touch.thread = "ui"

RequiredPresent(env) == {"PyPDF2", "Crypto"} \subseteq env.libs

\* C8: with both required libraries present, whichever optional libraries
\* are missing, the program never exits with status 1.
C8_OptionalLibrariesNeverFatal ==
    RequiredPresent(s_env) => s_exit # Some(1)

\* ------------------------------------------------------------------------
\* Properties of the operations of the file list manager (SpecFM).

\* the call left the manager as it was and fired no notification
NoEffect ==
    /\ pdf_files = fm_call.files
    /\ selected_index = fm_call.sel
    /\ sort_order = fm_call.order
    /\ fm_call.notes = << >>

\* the notifications of a kind fired by the call
Notes(kind) == {k \in 1..Len(fm_call.notes) : fm_call.notes[k].kind = kind}

InRange(index, files) == 0 <= index /\ index < Len(files)

\* files without its entry at the 0-based index
Without(files, index) ==
    [k \in 1..(Len(files) - 1) |-> IF k <= index THEN files[k] ELSE files[k + 1]]

\* C11: remove_file(i) with i out of range changes nothing, notifies nobody
\* and returns None; otherwise it returns entry i, the list is the old one
\* without entry i, the selection s becomes None if i = s, s - 1 (the same
\* file) if i < s and stays s if i > s, and files-changed is notified.
C11_RemoveFile ==
    fm_call.op = "remove_file" =>
        LET i == fm_call.args[1]
            s == fm_call.sel
            old == fm_call.files
        IN IF ~InRange(i, old)
           THEN NoEffect /\ fm_call.result = None
           ELSE /\ fm_call.result = Some(old[i + 1])
                /\ pdf_files = Without(old, i)
                /\ sort_order = fm_call.order
                /\ Notes("files_changed") # {}
                /\ IF s = None THEN selected_index = None
                   ELSE IF i = s[1] THEN selected_index = None
                   ELSE IF i < s[1]
                        THEN /\ selected_index = Some(s[1] - 1)
                             /\ PathAt(pdf_files, selected_index) = PathAt(old, s)
                        ELSE selected_index = s

\* C11 witness: the spec's example, 3 files, selection on 2, index 0 removed.
C11_Witness ==
    /\ fm_call.op = "remove_file" /\ Len(fm_call.files) = 3
    /\ fm_call.sel = Some(2) /\ fm_call.args[1] = 0
    /\ selected_index = Some(1)

\* C12: move_file_up(i) / move_file_down(i) exchange entry i with its
\* neighbour and leave the other entries in place; at the boundary or for an
\* invalid i they return False, change nothing and notify nobody; after a
\* successful move the selected index holds the path it held before.
C12_MoveUpDown ==
    fm_call.op \in {"move_file_up", "move_file_down"} =>
        LET i == fm_call.args[1]
            j == IF fm_call.op = "move_file_up" THEN i - 1 ELSE i + 1
            old == fm_call.files
        IN IF ~InRange(i, old) \/ ~InRange(j, old)
           THEN NoEffect /\ fm_call.result = FALSE
           ELSE /\ fm_call.result = TRUE
                /\ pdf_files = [k \in 1..Len(old) |->
                                   IF k = i + 1 THEN old[j + 1]
                                   ELSE IF k = j + 1 THEN old[i + 1]
                                   ELSE old[k]]
                /\ sort_order = fm_call.order
                /\ IF fm_call.sel = None THEN selected_index = None
                   ELSE /\ selected_index # None
                        /\ PathAt(pdf_files, selected_index) = PathAt(old, fm_call.sel)

\* C12 witness: the selected entry was the neighbour the moved entry passed.
C12_Witness ==
    /\ fm_call.op = "move_file_up" /\ fm_call.result = TRUE
    /\ fm_call.sel = Some(fm_call.args[1] - 1)
    /\ selected_index = Some(fm_call.args[1])

\* the list after taking the entry at from_index out and putting it at to_index
Moved(files, from_index, to_index) ==
    [k \in 1..Len(files) |->
        IF k - 1 = to_index THEN files[from_index + 1]
        ELSE IF from_index < to_index /\ from_index <= k - 1 /\ k - 1 < to_index THEN files[k + 1]
        ELSE IF to_index < from_index /\ to_index < k - 1 /\ k - 1 <= from_index THEN files[k - 1]
        ELSE files[k]]

\* C13: move_file_to_position(from, to) with both indices valid gives the
\* list with the entry taken out at from and put in at to, and a selection on
\* the moved entry becomes to; with from = to it returns True, changes
\* nothing and notifies nobody; with an invalid index it returns False and
\* changes nothing.
C13_MoveToPosition ==
    fm_call.op = "move_file_to_position" =>
        LET from_index == fm_call.args[1]
            to_index == fm_call.args[2]
            old == fm_call.files
        IN IF ~InRange(from_index, old) \/ ~InRange(to_index, old)
           THEN NoEffect /\ fm_call.result = FALSE
           ELSE IF from_index = to_index
           THEN NoEffect /\ fm_call.result = TRUE
           ELSE /\ fm_call.result = TRUE
                /\ pdf_files = Moved(old, from_index, to_index)
                /\ sort_order = fm_call.order
                /\ fm_call.sel = Some(from_index) => selected_index = Some(to_index)

\* C13 witness: the selected first entry of three was moved to the end.
C13_Witness ==
    /\ fm_call.op = "move_file_to_position" /\ Len(fm_call.files) = 3
    /\ fm_call.args = <<0, 2>> /\ fm_call.sel = Some(0)
    /\ selected_index = Some(2)

\* the entries add_files appends: every path that is a valid PDF, is not in
\* the list and has not occurred earlier in the batch, in input order
RECURSIVE Accepted(_, _)
Accepted(files, paths) ==
    IF paths = << >> THEN << >>
    ELSE LET rest == Accepted(files, SubSeq(paths, 1, Len(paths) - 1))
             path == paths[Len(paths)]
         IN IF is_valid_pdf(path) /\ ~HasPath(files, path) /\ ~HasPath(rest, path)
            THEN Append(rest, PDFInfo(path))
            ELSE rest

\* C14: add_files(paths) appends exactly the accepted paths in input order
\* and returns their number; it notifies files-changed once when something
\* was added and not at all otherwise; the selection becomes 0 when the list
\* was empty and something was added, and is unchanged otherwise.
C14_AddFiles ==
    fm_call.op = "add_files" =>
        LET old == fm_call.files
            added == Accepted(old, fm_call.args[1])
        IN /\ pdf_files = old \o added
           /\ fm_call.result = Len(added)
           /\ sort_order = fm_call.order
           /\ Cardinality(Notes("files_changed")) = (IF added # << >> THEN 1 ELSE 0)
           /\ IF old = << >> /\ added # << >>
              THEN selected_index = Some(0)
              ELSE selected_index = fm_call.sel /\ Notes("selection_changed") = {}

\* C14 witness: a batch whose first path is refused and whose second is added
\* to an empty list.
C14_Witness ==
    /\ fm_call.op = "add_files" /\ fm_call.files = << >>
    /\ Len(fm_call.args[1]) = 2 /\ ~is_valid_pdf(fm_call.args[1][1])
    /\ fm_call.result = 1 /\ selected_index = Some(0)

\* C15: set_selection(x) with x an out-of-range index changes nothing and
\* notifies nobody; otherwise the selection becomes x, and selection-changed
\* is notified, once and carrying x, exactly when x differs from the previous
\* selection; the list is never changed.
C15_SetSelection ==
    fm_call.op = "set_selection" =>
        LET x == fm_call.args[1]
        IN /\ pdf_files = fm_call.files
           /\ sort_order = fm_call.order
           /\ Notes("files_changed") = {}
           /\ IF x # None /\ ~InRange(x[1], fm_call.files)
              THEN NoEffect
              ELSE /\ selected_index = x
                   /\ IF x = fm_call.sel THEN fm_call.notes = << >>
                      ELSE /\ Len(fm_call.notes) = 1
                           /\ fm_call.notes[1].kind = "selection_changed"
                           /\ fm_call.notes[1].index = x

\* C15 witness: the index already selected was selected again.
C15_Witness ==
    /\ fm_call.op = "set_selection" /\ fm_call.args[1] # None
    /\ fm_call.args[1] = fm_call.sel /\ fm_call.notes = << >>

\* C19: after a successful move_file_to_position the selected index holds
\* the path that was selected before, whichever entry was moved.
C19_MoveKeepsSelectedFile ==
    (fm_call.op = "move_file_to_position" /\ fm_call.result = TRUE /\ fm_call.sel # None)
        => (selected_index # None
            /\ PathAt(pdf_files, selected_index) = PathAt(fm_call.files, fm_call.sel))

\* ------------------------------------------------------------------------
\* Progress reports of the merge engine (SpecMerge).

\* p <= q for two reported values n / d with positive denominators
FracLeq(p, q) == p[1] * q[2] <= q[1] * p[2]

\* C20: the values one successful merge_pdfs call hands to the progress
\* callback start at 0, end at 100 and never decrease.
C20_ProgressMonotone ==
    (m_pc = "done" /\ m_call.op = "merge_pdfs") =>
        /\ m_progress # << >>
        /\ m_progress[1] = Frac(0, 1)
        /\ m_progress[Len(m_progress)] = Frac(COMPLETE_PROGRESS, 1)
        /\ \A k \in 1..(Len(m_progress) - 1) : FracLeq(m_progress[k], m_progress[k + 1])

\* ------------------------------------------------------------------------
\* Properties of the theme manager (SpecTheme).

\* C17: two consecutive toggle_theme calls leave the manager in the mode it
\* had before them, with get_colors() equal to the mapping it returned
\* before them; and writing into a mapping obtained from get_colors() does
\* not change what get_colors() returns afterwards.
C17_ToggleInvolutionAndCopy ==
    /\ (th_call.op = "toggle_theme" /\ th_prev.op = "toggle_theme") =>
           /\ th_mode = th_prev.mode
           /\ get_colors(th_themes, th_mode).colors = th_prev.colors
    /\ th_call.op = "toggle_theme" => th_mode # th_call.mode
    /\ th_call.op = "mutate" => get_colors(th_themes, th_mode).colors = th_call.colors

\* C17 witness: two toggles from dark mode, made while the caller holds a
\* mapping it has written into.
C17_Witness ==
    /\ th_call.op = "toggle_theme" /\ th_prev.op = "toggle_theme"
    /\ th_prev.mode = "dark" /\ th_mode = "dark"
    /\ th_held.held /\ th_held.colors # th_themes["light"] /\ th_held.colors # th_themes["dark"]

\* ------------------------------------------------------------------------
\* Properties of the image loop (SpecImages).

FirstRowBelow(n, canvas_y) ==
    Cardinality({i \in 0..(n - 1) : 2 * winfo_y(i) + RowHeight <= 2 * canvas_y})

\* files with the entry at from_index taken out and put immediately before
\* the entry that occupied row r (at the end when r is the number of rows)
PutBefore(files, from_index, r) ==
    Moved(files, from_index, IF r > from_index THEN r - 1 ELSE r)

\* C18: when the drag of a row is released and r is the first row whose
\* midpoint lies below the pointer, the dragged file ends up immediately
\* before the file that occupied row r (last when the pointer is below
\* every midpoint, first when it is above the first), the other files
\* keeping their relative order, for downward and for upward drags.
C18_DropBeforeTargetRow ==
    (fm_call.op = "_on_internal_drop" /\ fm_call.result.lookup = "ok") =>
        pdf_files = PutBefore(fm_call.files, fm_call.args[1],
                              FirstRowBelow(Len(fm_call.files), fm_call.args[2]))

\* ------------------------------------------------------------------------
\* Failures inside merge_pdfs (SpecMerge).

InputFaults == {"open", "temp_write", "append"}
SaveFaults == {"save_open", "save_write"}

\* C23: when an input file or the save fails during merge_pdfs, the caller
\* gets a processing failure (RuntimeError) carrying the underlying message
\* and naming the offending file; no input after the failing one is
\* processed; when an input fails nothing is written to the output path.
C23_FailureNamesFile ==
    (m_call.op = "merge_pdfs" /\ m_pc = "raised" /\ m_faults # {}) =>
        /\ m_result.exc = "RuntimeError"
        /\ m_result.message \in m_faults
        /\ m_result.file # None
        /\ m_faults \cap InputFaults # {} =>
              /\ m_result.file = Some(CurrentFile.name)
              /\ Len(m_progress) = m_i + 2
              /\ m_output = NoFile

\* how many times a pass was run
Runs(pass) == Cardinality({k \in 1..Len(m_passes) : m_passes[k] = pass})

OptimizerFailed == m_faults \cap {"optimizer_failure_record", "optimizer_raises"} # {}

\* C24: when the optimizer returns a failure record or raises, the basic
\* compression pass runs exactly once and merge_pdfs still returns a success
\* record; no failure of the optimizer or of basic compression makes
\* merge_pdfs raise.
C24_CompressionFallback ==
    m_call.op = "merge_pdfs" =>
        /\ (m_pc = "raised" /\ Len(m_call.pdf_files) >= MIN_FILES_TO_MERGE) =>
               m_faults \cap (InputFaults \cup SaveFaults) # {}
        /\ (m_passes # << >> /\ OptimizerFailed) =>
               /\ Runs("_basic_compression") = 1
               /\ m_pc = "done" /\ m_result.success

\* C24 witness: the optimizer raised and the basic pass failed while
\* writing; the call returned a success record.
C24_Witness ==
    /\ m_call.op = "merge_pdfs" /\ m_pc = "done" /\ m_result.success
    /\ "optimizer_raises" \in m_faults /\ "basic_fails_in_write" \in m_faults
    /\ m_passes = <<"optimize_pdf_images", "_basic_compression">>

\* C25: a standardizing merge_pdfs creates one temporary file per input
\* file processed and has deleted it before the next input; when the call
\* has returned or raised, none of its temporary files exists.
C25_NoTempFileLeft ==
    (m_call.op = "merge_pdfs" /\ m_call.standardize_to_a4) =>
        /\ m_temp.live = 0
        /\ m_pc \in {"file", "save", "compress", "done"} => m_temp.created = m_i

\* ------------------------------------------------------------------------
\* The release of a row drag (SpecDrag).

\* C26: after every pointer release handled by the drag manager
\* is_dragging() is false and the drop indicator is hidden, whether or not a
\* move occurred and whether or not the drop-index helper raised; within one
\* gesture the item-moved callback fires at most once, with (origin index,
\* target index), and only when the target differs from the origin.
C26_ReleaseEndsDrag ==
    /\ [](/\ Len(gesture.moved) <= 1
          /\ \A k \in 1..Len(gesture.moved) :
                /\ Some(gesture.moved[k][1]) = gesture.origin
                /\ gesture.moved[k][2] # gesture.moved[k][1])
    /\ [][OnInternalDrop => (drag_data'.item = None /\ ~drop_indicator')]_vars

\* C26 witness: a release, with the helpers installed, that fired the
\* item-moved callback and left no drag behind.
C26_Witness ==
    /\ gesture.phase = "released" /\ Len(gesture.moved) = 1
    /\ drop_helpers /\ ~drop_indicator /\ ~is_dragging

\* ------------------------------------------------------------------------
\* The merge workers (SpecThreads).

Running == {w \in 1..MaxWorkers : t_workers[w].pc # "idle"}

\* C22: at most one merge worker thread is running at any time.
C22_OneMergeWorker ==
    Cardinality(Running) <= 1

\* C28: the file list manager, the theme manager and the drag-drop manager
\* are read and written by the UI thread only, never by the merge worker or
\* the preview page loader.
C28_ManagersOnlyFromUIThread ==
    \A touch \in t_touches : touch.target \in Managers => touch.thread = "ui"


\* ------------------------------------------------------------------------
\* C27: at most one auto-hide callback is pending, and a callback that clears
\* a displayed message is the one that message scheduled: the message was
\* shown with auto-hide, and the callback runs AUTO_HIDE_DELAY after it.
PendingTimers == Cardinality(st_after)

ClearedByOwnTimer ==
    st_cleared.text # None =>
        LET n == st_cleared.text[1]
        IN  /\ st_shown[n].auto_hide
            /\ st_cleared.id = n
            /\ st_cleared.at = st_shown[n].at + AUTO_HIDE_DELAY

C27_TimerClearsOnlyItsOwnMessage == PendingTimers <= 1 /\ ClearedByOwnTimer


\* ------------------------------------------------------------------------
\* C21: every image in the grid and in the image cache was rendered from the
\* file being previewed (none at all after clear_preview), and the image of a
\* card is the page whose number the card carries.
FromCurrentFile(photo) == Some(photo.file) = pv_file

C21_ThumbnailsOfCurrentFile ==
    /\ \A k \in 1..Len(pv_cards) :
          pv_cards[k].image # None =>
              /\ FromCurrentFile(pv_cards[k].image[1])
              /\ pv_cards[k].image[1].page = pv_cards[k].number
    /\ \A k \in 1..Len(pv_images) : FromCurrentFile(pv_images[k])


\* ------------------------------------------------------------------------
\* C29: a theme toggle in the main window leaves the manager's list,
\* selected index and sort order and the two option variables as they were
\* and makes no manager call (so no notification); the drag is cancelled
\* before the widgets are destroyed; the rebuilt rows are the files of the
\* list in order with the selected one highlighted, and the preview shows
\* the selected file, or nothing when there is none.
RowsShowList ==
    /\ Len(main_window.rows) = Len(pdf_files)
    /\ \A k \in 1..Len(pdf_files) :
          /\ main_window.rows[k].name = pdf_files[k].name
          /\ main_window.rows[k].is_selected = (selected_index = Some(k - 1))

PreviewShowsSelection ==
    IF selected_index # None /\ selected_index[1] < Len(pdf_files)
    THEN main_window.preview = Some(pdf_files[selected_index[1] + 1].path)
    ELSE main_window.preview = None

C29_ThemeToggleKeepsState ==
    [][MainToggleTheme =>
          /\ UNCHANGED <<pdf_files, selected_index, sort_order, fm_call>>
          /\ main_window'.options = main_window.options
          /\ ~w_refresh'.dragging_at_destroy /\ drag_data'.item = None
          /\ RowsShowList' /\ PreviewShowsSelection']_vars

C29_Witness ==
    /\ w_refresh.done /\ w_refresh.was_dragging /\ ~is_dragging
    /\ th_mode = "dark"
    /\ Len(main_window.rows) >= 2 /\ main_window.preview # None
    /\ RowsShowList /\ PreviewShowsSelection

\* ------------------------------------------------------------------------
\* C30: the caption of the sort button is "A-Z" when the manager's sort
\* order is ascending and "Z-A" when it is descending.
C30_SortCaptionMatchesOrder ==
    main_window.sort_btn = (IF sort_order = "asc" THEN "A-Z" ELSE "Z-A")

====
